---------------------------- MODULE Spec2Model ----------------------------
(***************************************************************************)
(* A model of the recommendation core of Crop_recomendation_ai: the        *)
(* response recovery pipelines of the Gemini and the local backend         *)
(* (src/src/api/gemini_api.py, src/src/api/local_api.py), the record       *)
(* normalizers, the numeric extraction helper                              *)
(* (src/src/components/report_generator.py) and the environmental data     *)
(* normalizer (src/src/utils/data_processor.py).                           *)
(*                                                                         *)
(* Texts are TLA+ strings and are handled character by character, with     *)
(* Python's 0-based indices.  Python values are tagged records             *)
(* [t |-> type, v |-> payload] so that values of different types compare.  *)
(***************************************************************************)
EXTENDS Integers, Sequences, FiniteSets, TLC

VARIABLES
    call,       \* the operation applied last ("none" before any)
    arg,        \* the input the operation was applied to
    ret,        \* what the operation returned
    aux         \* what the operation left behind besides its result

vars == <<call, arg, ret, aux>>

(***************************************************************************)
(* Python values                                                           *)
(***************************************************************************)
None == [t |-> "none", v |-> 0]
Bool(b) == [t |-> "bool", v |-> b]
PyInt(n) == [t |-> "int", v |-> n]
\* a float holds its decimal literal, e.g. "8.5"
PyFloat(lit) == [t |-> "float", v |-> lit]
Str(s) == [t |-> "str", v |-> s]
List(q) == [t |-> "list", v |-> q]
Dict(f) == [t |-> "dict", v |-> f]
EmptyDict == Dict([k \in {} |-> None])

IsStr(x) == x.t = "str"
IsDict(x) == x.t = "dict"
IsList(x) == x.t = "list"

\* a local variable: v is computed once and named inside Body
With(v, Body(_)) == Body(v)

\* Python truthiness: bool(x)
Truthy(x) ==
    CASE x.t = "none" -> FALSE
      [] x.t = "bool" -> x.v
      [] x.t = "int" -> x.v # 0
      [] x.t = "float" -> x.v \notin {"0.0", "-0.0"}
      [] x.t = "str" -> x.v # ""
      [] x.t = "list" -> Len(x.v) > 0
      [] x.t = "dict" -> DOMAIN x.v # {}

\* dict.get(key, default) and `key in dict`
Has(d, k) == k \in DOMAIN d.v
Get(d, k, default) == IF Has(d, k) THEN d.v[k] ELSE default
\* d[key] = value, on a copy
Put(d, k, x) == Dict((k :> x) @@ d.v)
\* the dict without key
Del(d, k) == Dict([j \in (DOMAIN d.v) \ {k} |-> d.v[j]])

(***************************************************************************)
(* Python str operations                                                   *)
(***************************************************************************)
Min2(a, b) == IF a < b THEN a ELSE b
Max2(a, b) == IF a > b THEN a ELSE b

\* s[i], "" outside the text
Ch(s, i) == IF i >= 0 /\ i < Len(s) THEN SubSeq(s, i + 1, i + 1) ELSE ""
\* s[a:b] for a, b >= 0
Slice(s, a, b) == IF a >= Min2(b, Len(s)) THEN "" ELSE SubSeq(s, a + 1, Min2(b, Len(s)))
From(s, a) == Slice(s, a, Len(s))
StartsAt(s, sub, i) == Slice(s, i, i + Len(sub)) = sub
StartsWith(s, sub) == StartsAt(s, sub, 0)
EndsWith(s, sub) == Len(sub) <= Len(s) /\ StartsAt(s, sub, Len(s) - Len(sub))

\* a text of `subs` starts at index i
HitAt(s, subs, i) == \E sub \in subs : StartsAt(s, sub, i)
\* the first index in lo..hi where a text of `subs` starts, -1 when none
FindIn(s, subs, lo, hi) ==
    IF \E i \in lo..hi : HitAt(s, subs, i)
    THEN CHOOSE i \in lo..hi :
            HitAt(s, subs, i) /\ \A j \in lo..(i - 1) : ~HitAt(s, subs, j)
    ELSE -1
\* the first index >= i of a character of `chars`, -1 when none
FindAny(s, chars, i) == FindIn(s, chars, i, Len(s) - 1)
\* s.find(sub, i): the first index >= i where sub starts, -1 when none
FindFrom(s, sub, i) == FindIn(s, {sub}, i, Len(s) - Len(sub))
Find(s, sub) == FindFrom(s, sub, 0)
Contains(s, sub) == Find(s, sub) # -1

\* s.replace(old, new): every non-overlapping occurrence, left to right;
\* i is the index of the first occurrence
RECURSIVE ReplaceAt(_, _, _, _)
ReplaceAt(s, old, new, i) ==
    IF i = -1 THEN s
    ELSE Slice(s, 0, i) \o new
            \o ReplaceAt(From(s, i + Len(old)), old, new,
                         Find(From(s, i + Len(old)), old))
Replace(s, old, new) == ReplaceAt(s, old, new, Find(s, old))

\* s.count(sub): the non-overlapping occurrences from index i on
RECURSIVE CountFrom(_, _, _)
CountFrom(s, sub, i) == IF i = -1 THEN 0 ELSE 1 + CountFrom(s, sub, FindFrom(s, sub, i + Len(sub)))
Count(s, sub) == CountFrom(s, sub, Find(s, sub))

\* the characters \s matches and str.strip() removes
Whitespace == {" ", "\t", "\n", "\r"}
Digits == {"0", "1", "2", "3", "4", "5", "6", "7", "8", "9"}

\* the index after the run of characters of `chars` that starts at i
SkipChars(s, chars, i) ==
    IF Ch(s, i) \notin chars THEN i
    ELSE CHOOSE j \in (i + 1)..Len(s) :
            Ch(s, j) \notin chars /\ \A k \in (i + 1)..(j - 1) : Ch(s, k) \in chars
\* the index of the first character at or after i that is not whitespace
SkipWs(s, i) == SkipChars(s, Whitespace, i)
\* the index after the run of digits that starts at i
SkipDigits(s, i) == SkipChars(s, Digits, i)

\* the index after the last character that is not whitespace, 0 when none
StripEnd(s) ==
    IF \A k \in 0..(Len(s) - 1) : Ch(s, k) \in Whitespace THEN 0
    ELSE CHOOSE j \in 1..Len(s) :
            Ch(s, j - 1) \notin Whitespace /\ \A k \in j..(Len(s) - 1) : Ch(s, k) \in Whitespace
LStrip(s) == From(s, SkipWs(s, 0))
RStrip(s) == Slice(s, 0, StripEnd(s))
Strip(s) == RStrip(LStrip(s))

\* int(text) of a run of digits
RECURSIVE DigitsValue(_, _)
DigitsValue(s, acc) ==
    IF s = "" THEN acc
    ELSE DigitsValue(From(s, 1),
                     acc * 10 + FindFrom("0123456789", Ch(s, 0), 0))

\* s.lower()
LowerAt(c, i) == IF c = "" \/ i = -1 THEN c ELSE Ch("abcdefghijklmnopqrstuvwxyz", i)
LowerCh(c) == LowerAt(c, Find("ABCDEFGHIJKLMNOPQRSTUVWXYZ", c))
RECURSIVE Lower(_)
Lower(s) ==
    IF Len(s) <= 1 THEN LowerCh(s)
    ELSE Lower(Slice(s, 0, Len(s) \div 2)) \o Lower(From(s, Len(s) \div 2))

\* re.sub(r'\s+', ' ', s)
RECURSIVE CollapseSpaces(_)
CollapseSpaces(s) ==
    IF Contains(s, "  ") THEN CollapseSpaces(Replace(s, "  ", " ")) ELSE s
CollapseWhitespace(s) ==
    CollapseSpaces(Replace(Replace(Replace(s, "\n", " "), "\t", " "), "\r", " "))

(***************************************************************************)
(* json.loads of the Python standard library: the decoder's grammar, its   *)
(* error messages and the offsets it reports them at.                      *)
(***************************************************************************)
JOk(x, end) == [ok |-> TRUE, val |-> x, end |-> end, msg |-> ""]
JErr(msg, pos) == [ok |-> FALSE, val |-> None, end |-> pos, msg |-> msg]

\* the characters a backslash may escape, and what each stands for
Unescape(c) ==
    CASE c = "\"" -> "\""
      [] c = "\\" -> "\\"
      [] c = "/" -> "/"
      [] c = "n" -> "\n"
      [] c = "t" -> "\t"
      [] c = "r" -> "\r"
      [] OTHER -> ""

\* py_scanstring(s, end): the text after an opening quote, up to its closing
\* quote; stop is the index of the next quote, backslash or control character
RECURSIVE ScanStringAt(_, _, _, _, _)
ScanStringAt(s, end, begin, acc, stop) ==
    IF stop = -1 THEN JErr("Unterminated string starting at", begin)
    ELSE IF Ch(s, stop) = "\"" THEN JOk(Str(acc \o Slice(s, end, stop)), stop + 1)
    ELSE IF Ch(s, stop) # "\\" THEN JErr("Invalid control character at", stop)
    ELSE IF stop + 1 >= Len(s) THEN JErr("Unterminated string starting at", begin)
    ELSE IF Unescape(Ch(s, stop + 1)) = "" THEN JErr("Invalid \\escape: ", stop)
    ELSE ScanStringAt(s, stop + 2, begin,
                      acc \o Slice(s, end, stop) \o Unescape(Ch(s, stop + 1)),
                      FindAny(s, {"\"", "\\", "\n", "\t", "\r"}, stop + 2))
ScanString(s, end, begin, acc) ==
    ScanStringAt(s, end, begin, acc, FindAny(s, {"\"", "\\", "\n", "\t", "\r"}, end))

\* the NUMBER_RE match at idx: (-?(?:0|[1-9]\d*))(\.\d+)?, its end or -1;
\* i0 is the index after the sign, i1 the index after the integer part
NumberEndFrac(s, i0, i1) ==
    IF i1 = i0 THEN -1
    ELSE IF Ch(s, i1) = "." /\ SkipDigits(s, i1 + 1) > i1 + 1 THEN SkipDigits(s, i1 + 1)
    ELSE i1
NumberEndInt(s, i0) ==
    NumberEndFrac(s, i0, IF Ch(s, i0) = "0" THEN i0 + 1 ELSE SkipDigits(s, i0))
NumberEnd(s, idx) == NumberEndInt(s, IF Ch(s, idx) = "-" THEN idx + 1 ELSE idx)

NumberValue(lit) ==
    IF Contains(lit, ".") THEN PyFloat(lit)
    ELSE IF Ch(lit, 0) = "-" THEN PyInt(0 - DigitsValue(From(lit, 1), 0))
    ELSE PyInt(DigitsValue(lit, 0))

RECURSIVE ScanOnce(_, _)
RECURSIVE JSONObjectPairs(_, _, _)
RECURSIVE JSONArrayItems(_, _, _)

\* JSONObject: idx is the index after the opening brace, e1 the index of the
\* first character after the whitespace that may follow it
JSONObjectAt(s, idx, e1) ==
    IF Ch(s, e1) = "}" /\ Ch(s, idx) # "\"" THEN JOk(EmptyDict, e1 + 1)
    ELSE IF Ch(s, e1) # "\"" THEN
        JErr("Expecting property name enclosed in double quotes", e1)
    ELSE JSONObjectPairs(s, e1 + 1, EmptyDict)
JSONObject(s, idx) ==
    JSONObjectAt(s, idx, IF Ch(s, idx) # "\"" THEN SkipWs(s, idx) ELSE idx)

\* one turn of the loop of JSONObject after the value is scanned: e2 is the
\* index of the delimiter that follows it
JSONObjectNext(s, next, e2) ==
    IF Ch(s, e2) = "}" THEN JOk(next, e2 + 1)
    ELSE IF Ch(s, e2) # "," THEN JErr("Expecting ',' delimiter", e2)
    ELSE IF Ch(s, SkipWs(s, e2 + 1)) # "\"" THEN
        JErr("Expecting property name enclosed in double quotes", SkipWs(s, e2 + 1))
    ELSE JSONObjectPairs(s, SkipWs(s, e2 + 1) + 1, next)
\* ... after the colon is passed: value is the value scanned
JSONObjectValue(s, pairs, key, value) ==
    IF ~value.ok THEN value
    ELSE JSONObjectNext(s, Put(pairs, key.val.v, value.val), SkipWs(s, value.end))
\* ... after the key is scanned: c1 is the index where the colon must be
JSONObjectColon(s, pairs, key, c1) ==
    IF Ch(s, c1) # ":" THEN JErr("Expecting ':' delimiter", c1)
    ELSE JSONObjectValue(s, pairs, key, ScanOnce(s, SkipWs(s, c1 + 1)))
JSONObjectKey(s, pairs, key) ==
    IF ~key.ok THEN key
    ELSE JSONObjectColon(s, pairs, key,
                         IF Ch(s, key.end) # ":" THEN SkipWs(s, key.end) ELSE key.end)
\* the loop of JSONObject: end is the index after a key's opening quote
JSONObjectPairs(s, end, pairs) ==
    JSONObjectKey(s, pairs, ScanString(s, end, end - 1, ""))

\* one turn of the loop of JSONArray after the value is scanned: e2 is the
\* index of the delimiter that follows it
JSONArrayNext(s, values, e2) ==
    IF Ch(s, e2) = "]" THEN JOk(List(values), e2 + 1)
    ELSE IF Ch(s, e2) # "," THEN JErr("Expecting ',' delimiter", e2)
    ELSE JSONArrayItems(s, SkipWs(s, e2 + 1), values)
JSONArrayValue(s, values, value) ==
    IF ~value.ok THEN value
    ELSE JSONArrayNext(s, Append(values, value.val), SkipWs(s, value.end))
\* the loop of JSONArray: end is the index where the next value starts
JSONArrayItems(s, end, values) == JSONArrayValue(s, values, ScanOnce(s, end))

\* JSONArray: idx is the index after the opening bracket
JSONArray(s, idx) ==
    IF Ch(s, SkipWs(s, idx)) = "]" THEN JOk(List(<<>>), SkipWs(s, idx) + 1)
    ELSE JSONArrayItems(s, SkipWs(s, idx), <<>>)

\* a number at idx, whose match ends at n
ScanNumber(s, idx, n) ==
    IF n # -1 THEN JOk(NumberValue(Slice(s, idx, n)), n)
    ELSE JErr("Expecting value", idx)

\* scan_once(s, idx): the JSON value that starts at idx
ScanOnce(s, idx) ==
    CASE Ch(s, idx) = "\"" -> ScanString(s, idx + 1, idx, "")
      [] Ch(s, idx) = "{" -> JSONObject(s, idx + 1)
      [] Ch(s, idx) = "[" -> JSONArray(s, idx + 1)
      [] StartsAt(s, "null", idx) -> JOk(None, idx + 4)
      [] StartsAt(s, "true", idx) -> JOk(Bool(TRUE), idx + 4)
      [] StartsAt(s, "false", idx) -> JOk(Bool(FALSE), idx + 5)
      [] OTHER -> ScanNumber(s, idx, NumberEnd(s, idx))

\* the end of json.loads: no text may follow the value but whitespace
JSONEnd(s, r) ==
    IF ~r.ok THEN r
    ELSE IF SkipWs(s, r.end) # Len(s) THEN JErr("Extra data", SkipWs(s, r.end))
    ELSE r
\* json.loads(s): [ok, val] or the JSONDecodeError [msg, end = its pos]
json_loads(s) == JSONEnd(s, ScanOnce(s, SkipWs(s, 0)))

(***************************************************************************)
(* Exceptions: an operation that raises yields Raised instead of a value.  *)
(***************************************************************************)
Raised == [t |-> "raise", v |-> 0]
IsRaised(x) == x.t = "raise"

\* the number of records partial extraction builds at most
\* (gemini_api.py:543, local_api.py:671)
MaxPlants == 5
\* range(3): the json.loads attempts of the Gemini parser (gemini_api.py:448)
MaxParseAttempts == 3

\* `for rec in items`: the list of the Op(rec), Raised when one of them raises
ForEach(items, Op(_)) ==
    With([i \in 1..Len(items) |-> Op(items[i])], LAMBDA out :
        IF \E i \in 1..Len(out) : IsRaised(out[i]) THEN Raised ELSE List(out))

\* '}' * n
RECURSIVE Repeat(_, _)
Repeat(c, n) == IF n <= 0 THEN "" ELSE c \o Repeat(c, n - 1)

(***************************************************************************)
(* Stages 1 to 3 of the recovery pipeline, the same code in both backends  *)
(***************************************************************************)
\* The markdown fence marker, three backticks.  A TLA+ string cannot hold a
\* backtick, so every text of the model writes the backtick as a tilde.
Fence == "~~~"

\* the markdown fence stripping at the head of both parsers
StripFenceTail(t2) == Strip(IF EndsWith(t2, Fence) THEN Slice(t2, 0, Len(t2) - 3) ELSE t2)
StripFenceHead(t1) == StripFenceTail(IF StartsWith(t1, Fence) THEN From(t1, 3) ELSE t1)
StripFenceJson(t0) ==
    StripFenceHead(IF StartsWith(t0, Fence \o "json") THEN From(t0, 7) ELSE t0)
strip_code_fences(response_text) == StripFenceJson(Strip(response_text))

\* the nesting counter of both parsers: the index after the closer that
\* brings the count of open/close characters back to zero, -1 when the
\* count never returns to zero.  k is the index of the next opener or closer
\* (-1: none is left), count the count before it.
RECURSIVE matching_from(_, _, _, _, _)
matching_from(s, open, close, k, count) ==
    CASE k = -1 -> -1
      [] k # -1 /\ Ch(s, k) = open ->
            matching_from(s, open, close, FindAny(s, {open, close}, k + 1), count + 1)
      [] k # -1 /\ Ch(s, k) # open /\ count - 1 = 0 -> k + 1
      [] OTHER ->
            matching_from(s, open, close, FindAny(s, {open, close}, k + 1), count - 1)
\* start is the index of the first opener
matching_end(s, open, close, i, count) ==
    matching_from(s, open, close, FindAny(s, {open, close}, i), count)

clean_json_string(json_str) ==
    Strip(CollapseWhitespace(
        Replace(Replace(Replace(Replace(Replace(Replace(Replace(Replace(Replace(
            json_str, "\n", " "), "\t", " "),
            "\\\"", "\""),
            "\"\"", "\""),
            "\"...", "\"\""),
            "...", ""),
            "\",}", "\"}"),
            ",}", "}"),
            ",]", "]")))

\* re.findall for the pattern: the quoted field name, a colon, any
\* whitespace, then a quoted non-empty run of non-quote characters (the
\* group that is returned).  k is the index of the next quoted field name
\* with its colon (-1: none is left), q1 the index after the whitespace that
\* follows it, q2 the index of the next quote after q1.
RECURSIVE findall_from(_, _, _)
findall_value(text, key, k, q1, q2) ==
    IF Ch(text, q1) = "\"" /\ q2 > q1 + 1
    THEN <<Slice(text, q1 + 1, q2)>> \o findall_from(text, key, FindFrom(text, key, q2 + 1))
    ELSE findall_from(text, key, FindFrom(text, key, k + 1))
findall_quote(text, key, k, q1) ==
    findall_value(text, key, k, q1, FindFrom(text, "\"", q1 + 1))
findall_from(text, key, k) ==
    IF k = -1 THEN <<>>
    ELSE findall_quote(text, key, k, SkipWs(text, k + Len(key)))
findall_field(text, field, i) ==
    findall_from(text, "\"" \o field \o "\":", FindFrom(text, "\"" \o field \o "\":", i))

(***************************************************************************)
(* The Gemini backend: src/src/api/gemini_api.py                           *)
(***************************************************************************)
gemini_fix_json_error(json_str, error) ==
    With(error.end, LAMBDA error_pos :
    With(Slice(json_str, 0, error_pos), LAMBDA cut :
        IF Contains(error.msg, "Extra data") THEN
            cut \o Repeat("}", Count(cut, "{") - Count(cut, "}"))
        ELSE IF error_pos >= Len(json_str) THEN json_str
        ELSE IF Contains(error.msg, "Unterminated string") THEN
            cut \o "\"" \o From(json_str, error_pos)
        ELSE IF Contains(error.msg, "Expecting ',' delimiter") THEN
            cut \o "," \o From(json_str, error_pos)
        ELSE json_str))

gemini_create_fallback_recommendations ==
    List(<<Dict([
        scientific_name |-> Str("Azadirachta indica"),
        common_name |-> Str("Neem"),
        local_name |-> Str("hi (Neem)"),
        plant_type |-> Str("Tree"),
        suitability_analysis |-> Str("Highly suitable for Indian climate with excellent environmental benefits"),
        care_instructions |-> Str("Water regularly in first year, then minimal care needed. Prune annually."),
        environmental_impact_score |-> PyFloat("9.0"),
        air_quality_benefits |-> Dict([
            pollution_reduction |-> Str("Excellent air purification"),
            co2_absorption |-> Str("High CO2 absorption capacity"),
            oxygen_production |-> Str("Significant oxygen production"),
            aqi_improvement |-> Str("Notable AQI improvement")]),
        growth_characteristics |-> Dict([
            growth_rate |-> Str("Fast-growing"),
            mature_height |-> Str("15-20 meters"),
            spacing_requirements |-> Str("4-6 meters apart")]),
        sustainability_highlights |-> List(<<Str("Native to India"), Str("Drought tolerant"), Str("Pollution resistant"), Str("Multi-purpose tree")>>)])>>)

\* the record extract_partial_recommendations builds around found names
gemini_partial_record(scientific, common, local) ==
    Dict([
        scientific_name |-> Str(scientific),
        common_name |-> Str(common),
        local_name |-> Str(local),
        plant_type |-> Str("Plant"),
        suitability_analysis |-> Str("AI-recommended for your environmental conditions"),
        care_instructions |-> Str("Standard care applicable for your climate zone"),
        environmental_impact_score |-> PyFloat("7.5"),
        air_quality_benefits |-> Dict([
            pollution_reduction |-> Str("Contributes to air purification"),
            co2_absorption |-> Str("CO2 absorption capabilities"),
            oxygen_production |-> Str("Oxygen production benefits"),
            aqi_improvement |-> Str("Helps improve local air quality")]),
        growth_characteristics |-> Dict([
            growth_rate |-> Str("Moderate growth rate"),
            mature_height |-> Str("Suitable height for location"),
            spacing_requirements |-> Str("Standard spacing recommended")]),
        sustainability_highlights |-> List(<<Str("AI-recommended for your location"),
                                             Str("Environmentally beneficial")>>)])

\* str(i + 1) for the placeholder names
IndexText(i) == Ch("123456789", i - 1)

\* extract_partial_recommendations without the static fallback of its last
\* line: the list of the records built, empty when no name pair is found
gemini_extract_partial_without_fallback(text) ==
    IF ~IsStr(text) THEN [ret |-> List(<<>>), stage |-> "partial"]
    ELSE
    With(findall_field(text.v, "scientific_name", 0), LAMBDA scientific_names :
    With(findall_field(text.v, "common_name", 0), LAMBDA common_names :
    With(findall_field(text.v, "local_name", 0), LAMBDA local_names :
    With(Min2(Min2(Len(scientific_names), Len(common_names)), MaxPlants),
         LAMBDA max_plants :
        [ret |-> List([i \in 1..max_plants |->
                     gemini_partial_record(
                         scientific_names[i],
                         common_names[i],
                         IF i <= Len(local_names) THEN local_names[i]
                         ELSE "Local Plant " \o IndexText(i))]),
         stage |-> "partial"]))))

\* [ret |-> the list returned, stage |-> "partial" or "fallback"]
gemini_extract_partial_recommendations(text) ==
    IF ~IsStr(text) THEN
        \* re.findall raises TypeError, caught: the static fallback
        [ret |-> gemini_create_fallback_recommendations, stage |-> "fallback"]
    ELSE
    With(findall_field(text.v, "scientific_name", 0), LAMBDA scientific_names :
    With(findall_field(text.v, "common_name", 0), LAMBDA common_names :
    With(findall_field(text.v, "local_name", 0), LAMBDA local_names :
    With(Min2(Min2(Len(scientific_names), Len(common_names)), MaxPlants),
         LAMBDA max_plants :
        IF max_plants > 0
        THEN [ret |-> List([i \in 1..max_plants |->
                        gemini_partial_record(
                            scientific_names[i],
                            common_names[i],
                            IF i <= Len(local_names) THEN local_names[i]
                            ELSE "Local Plant " \o IndexText(i))]),
              stage |-> "partial"]
        ELSE [ret |-> gemini_create_fallback_recommendations, stage |-> "fallback"]))))

\* rec.setdefault(key, default), on a copy; Raised stays Raised
setdefault(rec, key, default) ==
    IF IsRaised(rec) \/ Has(rec, key) THEN rec ELSE Put(rec, key, default)

\* the structure defaults of enhance_recommendations_for_ui
\* (gemini_api.py:587-601): a missing or falsy rec[key] becomes `defaults`;
\* Raised when the falsy value is no dict (its .get raises AttributeError)
ensure_structure(rec, key, defaults) ==
    IF IsRaised(rec) \/ Truthy(Get(rec, key, EmptyDict)) THEN rec
    ELSE IF ~IsDict(Get(rec, key, EmptyDict)) THEN Raised
    ELSE Put(rec, key, defaults)

\* one record of enhance_recommendations_for_ui; Raised when rec is no dict
gemini_enhance_record(rec) ==
    IF ~IsDict(rec) THEN Raised
    ELSE
    With(setdefault(rec, "environmental_impact_score", PyFloat("7.5")), LAMBDA r1 :
    With(ensure_structure(r1, "air_quality_benefits", Dict([
            pollution_reduction |-> Str("Air purification capabilities"),
            co2_absorption |-> Str("CO2 absorption data not specified"),
            oxygen_production |-> Str("Oxygen production data not specified"),
            aqi_improvement |-> Str("AQI improvement potential")])), LAMBDA r2 :
    With(ensure_structure(r2, "growth_characteristics", Dict([
            growth_rate |-> Str("Growth rate not specified"),
            mature_height |-> Str("Height not specified"),
            spacing_requirements |-> Str("Spacing not specified")])), LAMBDA r3 :
        setdefault(r3, "sustainability_highlights",
                   List(<<Str("AI-recommended for your location")>>)))))

\* enhance_recommendations_for_ui: it is only called with a truthy value;
\* iterating one that is no list raises (TypeError), or yields keys or
\* characters, on which setdefault raises (AttributeError)
gemini_enhance_recommendations_for_ui(recommendations) ==
    IF ~IsList(recommendations) THEN Raised
    ELSE ForEach(recommendations.v, gemini_enhance_record)

\* the parse loop `for attempt in range(3)` from attempt on; cleaned_text is
\* what partial extraction reads after the last failure
RECURSIVE gemini_parse_attempts(_, _, _)
gemini_parse_attempts(json_str, attempt, cleaned_text) ==
    With(json_loads(json_str), LAMBDA r :
        IF r.ok /\ ~IsDict(r.val) THEN
            \* data.get raises AttributeError
            [ret |-> Raised, stage |-> "raised", attempts |-> attempt + 1]
        ELSE IF r.ok /\ Truthy(Get(r.val, "recommendations", List(<<>>))) THEN
            [ret |-> gemini_enhance_recommendations_for_ui(r.val.v["recommendations"]),
             stage |-> "parsed", attempts |-> attempt + 1]
        ELSE IF attempt < MaxParseAttempts - 1 THEN
            gemini_parse_attempts(
                IF r.ok THEN json_str ELSE gemini_fix_json_error(json_str, r),
                attempt + 1, cleaned_text)
        ELSE IF r.ok THEN \* the loop ends and the function returns nothing
            [ret |-> None, stage |-> "none", attempts |-> attempt + 1]
        ELSE gemini_extract_partial_recommendations(Str(cleaned_text))
                @@ [attempts |-> attempt + 1])

\* [ret |-> what parse_enhanced_gemini_response returns (None: nothing),
\*  stage |-> the stage that produced it, attempts |-> json.loads calls,
\*  span |-> the text structural extraction cut out (None: no structure)]
parse_enhanced_gemini_response(response_text) ==
    IF ~IsStr(response_text) THEN
        \* .strip() raises, caught by the outer handler
        gemini_extract_partial_recommendations(response_text)
            @@ [attempts |-> 0, span |-> None]
    ELSE
    With(strip_code_fences(response_text.v), LAMBDA cleaned_text :
    With(Find(cleaned_text, "{"), LAMBDA start_idx :
    With(matching_end(cleaned_text, "{", "}", start_idx, 0), LAMBDA end_idx :
    With(Slice(cleaned_text, start_idx, end_idx), LAMBDA span :
    With(IF start_idx = -1 \/ end_idx = -1
         THEN [ret |-> Raised, stage |-> "unstructured", attempts |-> 0]
         ELSE gemini_parse_attempts(clean_json_string(span), 0, cleaned_text),
         LAMBDA tried :
        IF IsRaised(tried.ret) THEN
            \* no complete object: partial extraction from the cleaned text;
            \* an exception: the outer handler, from the raw text
            gemini_extract_partial_recommendations(
                    IF tried.stage = "unstructured" THEN Str(cleaned_text)
                    ELSE response_text)
                @@ [attempts |-> tried.attempts,
                    span |-> IF tried.stage = "unstructured" THEN None ELSE Str(span)]
        ELSE tried @@ [span |-> Str(span)])))))

(***************************************************************************)
(* str(x), as an f-string renders a value                                  *)
(***************************************************************************)
RECURSIVE IntText(_)
IntText(n) ==
    IF n < 0 THEN "-" \o IntText(0 - n)
    ELSE IF n < 10 THEN Ch("0123456789", n)
    ELSE IntText(n \div 10) \o Ch("0123456789", n % 10)

\* the keys of a dict as a sequence
RECURSIVE KeysSeq(_)
KeysSeq(S) ==
    IF S = {} THEN <<>>
    ELSE With(CHOOSE x \in S : TRUE, LAMBDA k : <<k>> \o KeysSeq(S \ {k}))

\* ', '.join(parts) for a sequence of strings
RECURSIVE Join(_)
Join(parts) ==
    IF Len(parts) = 0 THEN ""
    ELSE IF Len(parts) = 1 THEN parts[1]
    ELSE parts[1] \o ", " \o Join(Tail(parts))

\* repr(x) for the values inside a list or dict.  A dict of several keys is
\* rendered in an order of the model's choosing: the model's dicts do not
\* keep Python's insertion order.
RECURSIVE Repr(_)
Repr(x) ==
    CASE x.t = "none" -> "None"
      [] x.t = "bool" -> IF x.v THEN "True" ELSE "False"
      [] x.t = "int" -> IntText(x.v)
      [] x.t = "float" -> x.v
      [] x.t = "str" -> "'" \o x.v \o "'"
      [] x.t = "list" -> "[" \o Join([i \in 1..Len(x.v) |-> Repr(x.v[i])]) \o "]"
      [] x.t = "dict" ->
            With(KeysSeq(DOMAIN x.v), LAMBDA keys :
                "{" \o Join([i \in 1..Len(keys) |->
                                "'" \o keys[i] \o "': " \o Repr(x.v[keys[i]])]) \o "}")
Format(x) == IF IsStr(x) THEN x.v ELSE Repr(x)

(***************************************************************************)
(* The local backend: src/src/api/local_api.py                             *)
(***************************************************************************)
\* re.search of a number followed by optional whitespace and the letter l
\* (liter, liters, l), from index i on: the number's text, "" when none
RECURSIVE search_liters(_, _)
search_liters(t, i) ==
    With(FindAny(t, Digits, i), LAMBDA k :
    With(SkipDigits(t, k), LAMBDA d1 :
    With(SkipDigits(t, d1 + 1), LAMBDA d2 :
        IF k = -1 THEN ""
        ELSE IF Ch(t, d1) = "." /\ d2 > d1 + 1 /\ Ch(t, SkipWs(t, d2)) = "l"
        THEN Slice(t, k, d2)
        ELSE IF Ch(t, SkipWs(t, d1)) = "l" THEN Slice(t, k, d1)
        ELSE search_liters(t, k + 1))))

\* the five quantities of a plant-type bucket
liters_bucket(p) ==
    IF Contains(p, "tree") THEN
        [seedling_daily |-> "35 liters per week", seedling_alt |-> "20 liters per week",
         seedling_weekly |-> "20-30 liters per week", mature_weekly |-> "80-150 liters per week",
         mature_weekly_small |-> "30-60 liters per week"]
    ELSE IF Contains(p, "crop") THEN
        [seedling_daily |-> "10 liters per week", seedling_alt |-> "6 liters per week",
         seedling_weekly |-> "6-10 liters per week", mature_weekly |-> "10-40 liters per week",
         mature_weekly_small |-> "5-15 liters per week"]
    ELSE
        [seedling_daily |-> "7 liters per week", seedling_alt |-> "4 liters per week",
         seedling_weekly |-> "3-7 liters per week", mature_weekly |-> "10-25 liters per week",
         mature_weekly_small |-> "3-10 liters per week"]

\* frequency_to_liters(text, plant_type, stage) for a non-empty str text;
\* Raised when plant_type is truthy and no str (it has no .lower())
frequency_to_liters(text, plant_type, stage) ==
    IF Truthy(plant_type) /\ ~IsStr(plant_type) THEN Raised
    ELSE
    With(Lower(text), LAMBDA t :
    With(search_liters(t, 0), LAMBDA m :
    With(liters_bucket(IF Truthy(plant_type) THEN Lower(plant_type.v) ELSE ""), LAMBDA b :
    With(StartsWith(stage, "seed"), LAMBDA seed :
        IF m # "" THEN Str(m \o " liters per week")
        ELSE IF Contains(t, "daily") \/ Contains(t, "every day") THEN
            Str(IF seed THEN b.seedling_daily ELSE b.mature_weekly)
        ELSE IF Contains(t, "alternate") \/ Contains(t, "every other") THEN
            Str(IF seed THEN b.seedling_alt ELSE b.mature_weekly_small)
        ELSE IF Contains(t, "weekly") \/ Contains(t, "once a week") THEN
            Str(IF seed THEN b.seedling_weekly ELSE b.mature_weekly_small)
        ELSE IF Contains(t, "monthly") THEN Str("5-10 liters per week")
        ELSE Str(b.mature_weekly)))))

\* x or y
Or(x, y) == IF Truthy(x) THEN x ELSE y

\* the loop over the water keys (local_api.py:535-540), over the keys left:
\* a str value that holds a frequency word becomes liters per week
RECURSIVE convert_frequencies(_, _, _)
convert_frequencies(water, keys, plant_type) ==
    IF keys = {} \/ IsRaised(water) THEN water
    ELSE
    With(CHOOSE k \in keys : TRUE, LAMBDA key :
    With(water.v[key], LAMBDA val :
        IF IsStr(val) /\ (\E word \in {"daily", "weekly", "alternate", "every"} :
                              Contains(Lower(val.v), word))
        THEN With(frequency_to_liters(val.v, plant_type,
                      IF Contains(key, "seed") THEN "seed" ELSE "mature"),
                  LAMBDA liters :
                      convert_frequencies(
                          IF IsRaised(liters) THEN Raised ELSE Put(water, key, liters),
                          keys \ {key}, plant_type))
        ELSE convert_frequencies(water, keys \ {key}, plant_type)))

\* `if old in d and new not in d: d[new] = d.pop(old)`
rename_key(d, old, new) ==
    IF Has(d, old) /\ ~Has(d, new) THEN Put(Del(d, old), new, d.v[old]) ELSE d

\* a falsy d[key] becomes d[alt] when that is truthy, else the default
fill_key(d, key, alt, default) ==
    IF Truthy(Get(d, key, None)) THEN d
    ELSE Put(d, key, Or(Get(d, alt, None), Str(default)))

\* the water part of normalize_recommendation_fields (local_api.py:502-540):
\* the normalized water dict, Raised when the value found is neither a str
\* nor a dict
normalize_water(rec) ==
    With(Or(Or(Get(rec, "water_needs", None), Get(rec, "water_requirements", None)),
            EmptyDict), LAMBDA found :
    With(IF IsStr(found) THEN
            Dict([seedling_stage |-> Str(IF Contains(Lower(found.v), "daily")
                                         THEN "7 liters per week"
                                         ELSE "5-10 liters per week"),
                  mature_plant |-> Str("25-40 liters per week"),
                  dry_season_adjustment |-> Str("Add 10-15 liters per week"),
                  monsoon_reduction |-> Str("Reduce to 10-20 liters per week")])
         ELSE found, LAMBDA water :
    IF ~IsDict(water) THEN Raised
    ELSE
    With(rename_key(rename_key(water, "seedling", "seedling_stage"),
                    "mature", "mature_plant"), LAMBDA renamed :
    With(fill_key(fill_key(renamed, "seedling_stage", "seedling", "5-10 liters per week"),
                  "mature_plant", "mature", "25-40 liters per week"), LAMBDA filled :
        convert_frequencies(filled, DOMAIN filled.v,
                            Get(rec, "plant_type", Str("plant")))))))

\* the sunlight part of normalize_recommendation_fields (local_api.py:545-568)
normalize_sunlight(rec) ==
    With(Or(Or(Get(rec, "sunlight", None), Get(rec, "sunlight_requirements", None)),
            EmptyDict), LAMBDA found :
    With(IsStr(found) /\ Contains(Lower(found.v), "full"), LAMBDA full :
    With(IF IsStr(found) THEN
            Dict([daily_hours_needed |-> Str(IF full THEN "6-8 hours" ELSE "4-6 hours"),
                  light_intensity |-> Str(IF full THEN "Full Sun" ELSE "Partial Sun"),
                  optimal_direction |-> Str("South facing")])
         ELSE found, LAMBDA sun :
    IF ~IsDict(sun) THEN Raised
    ELSE
    With(rename_key(rename_key(sun, "daily_hours", "daily_hours_needed"),
                    "type", "light_intensity"), LAMBDA renamed :
        fill_key(fill_key(renamed, "daily_hours_needed", "daily_hours", "6-8 hours"),
                 "light_intensity", "light_intensity", "Full Sun")))))

\* rec[target] = value; the function changed the dict in place, so when it
\* was read from rec[source] that key holds the changed dict too
store_normalized(rec, source, target, value) ==
    With(IF IsDict(Get(rec, source, None)) /\ Truthy(Get(rec, source, None))
         THEN Put(rec, source, value) ELSE rec, LAMBDA aliased :
        Put(aliased, target, value))

\* normalize_recommendation_fields(rec): rec as the call leaves it, Raised
\* when it raises
normalize_recommendation_fields(rec) ==
    IF ~IsDict(rec) THEN Raised
    ELSE
    With(normalize_water(rec), LAMBDA water :
    With(normalize_sunlight(rec), LAMBDA sun :
    IF IsRaised(water) \/ IsRaised(sun) THEN Raised
    ELSE
    With(store_normalized(store_normalized(rec, "water_needs", "water_requirements", water),
                          "sunlight", "sunlight_requirements", sun), LAMBDA stored :
        IF IsDict(Get(rec, "planting_window", None)) THEN stored
        ELSE Put(stored, "planting_window", Dict([
                best_months |-> List(<<Str("June"), Str("July"), Str("August")>>),
                can_plant_now |-> Bool(TRUE),
                planting_window_justification |-> Str("Default monsoon window for India."),
                planting_mitigation_steps |->
                    Str("Use container seedlings, mulch, and supplemental irrigation when off-window.")])))))

local_fix_json_error(json_str, error) ==
    IF Contains(error.msg, "Extra data") THEN
        With(Slice(json_str, 0, error.end), LAMBDA cut :
            cut \o Repeat("}", Count(cut, "{") - Count(cut, "}")))
    ELSE IF Contains(error.msg, "Expecting") /\ Contains(error.msg, ",") THEN
        Slice(json_str, 0, error.end) \o "," \o From(json_str, error.end)
    ELSE json_str

local_create_fallback_recommendations ==
    List(<<Dict([
        scientific_name |-> Str("Azadirachta indica"),
        common_name |-> Str("Neem Tree"),
        local_name |-> Str("hi (Neem)"),
        plant_type |-> Str("Tree"),
        family |-> Str("Meliaceae"),
        suitability_score |-> Str("9/10"),
        suitability_analysis |-> Str("Excellent drought-tolerant tree, perfect for Indian climate with specific water needs of 40-60 liters per week when mature and 6-8 hours of daily sunlight."),
        environmental_impact_score |-> PyInt(9),
        water_requirements |-> Dict([
            seedling_stage |-> Str("10-15 liters per week for first 6 months"),
            young_plant |-> Str("20-30 liters per week for 6 months to 2 years"),
            mature_plant |-> Str("40-60 liters per week when fully grown"),
            dry_season_adjustment |-> Str("Add 15-20 liters per week during summer"),
            monsoon_reduction |-> Str("Reduce to 15-25 liters per week during rains"),
            water_conservation_methods |-> Str("Drip irrigation: 3-5 liters/hour, Mulching: 5cm deep, Rainwater harvesting highly effective")]),
        sunlight_requirements |-> Dict([
            daily_hours_needed |-> Str("6-8 hours"),
            light_intensity |-> Str("Full Sun"),
            optimal_direction |-> Str("South facing preferred"),
            shade_tolerance |-> Str("Can tolerate 2 hours less sunlight if needed"),
            seasonal_adjustments |-> Str("Thrives in high summer sun, no shade protection needed")]),
        air_quality_benefits |-> Dict([
            pollution_reduction |-> Str("PM2.5, SO2, NO2, dust particles"),
            co2_absorption |-> Str("48 kg/year"),
            oxygen_production |-> Str("260 liters/day"),
            aqi_improvement |-> Str("Significant improvement (5-10 points)")]),
        growth_characteristics |-> Dict([
            mature_height |-> Str("15-20 meters"),
            mature_spread |-> Str("8-12 meters canopy"),
            growth_rate |-> Str("Fast (2-3 meters per year)"),
            lifespan |-> Str("50-100 years"),
            space_requirements |-> Str("25-36 sq meters per tree (5-6 meters spacing)")]),
        sustainability_highlights |-> List(<<Str("Natural pesticide properties"), Str("Medicinal uses"), Str("Fast growing"), Str("Extreme drought tolerance")>>),
        planting_window |-> Dict([
            best_months |-> List(<<Str("June"), Str("July"), Str("August")>>),
            can_plant_now |-> Bool(TRUE),
            planting_window_justification |-> Str("Monsoon months are best for establishment in most Indian regions."),
            planting_mitigation_steps |-> Str("Use container seedlings, mulch heavily and provide supplemental watering if planting off-window.")])]), Dict([
        scientific_name |-> Str("Ficus religiosa"),
        common_name |-> Str("Peepal Tree"),
        local_name |-> Str("hi (Peepal)"),
        plant_type |-> Str("Tree"),
        family |-> Str("Moraceae"),
        suitability_score |-> Str("8.5/10"),
        suitability_analysis |-> Str("Sacred tree with excellent air purification capabilities requiring 60-100 liters per week when mature and 6-8 hours of daily sunlight. Releases oxygen even at night."),
        environmental_impact_score |-> PyInt(9),
        water_requirements |-> Dict([
            seedling_stage |-> Str("15-20 liters per week for first 6 months"),
            young_plant |-> Str("30-50 liters per week for young trees"),
            mature_plant |-> Str("60-100 liters per week when fully grown"),
            dry_season_adjustment |-> Str("Add 20-30 liters per week during summer"),
            monsoon_reduction |-> Str("Reduce to 20-40 liters per week during rains"),
            water_conservation_methods |-> Str("Deep root watering, 6cm mulch layer, collect rainwater for dry season use")]),
        sunlight_requirements |-> Dict([
            daily_hours_needed |-> Str("6-8 hours"),
            light_intensity |-> Str("Full Sun"),
            optimal_direction |-> Str("South or East facing preferred"),
            shade_tolerance |-> Str("Can tolerate 1-2 hours less sunlight"),
            seasonal_adjustments |-> Str("Benefits from morning sun exposure")]),
        air_quality_benefits |-> Dict([
            pollution_reduction |-> Str("PM2.5, CO, dust, SO2"),
            co2_absorption |-> Str("50 kg/year"),
            oxygen_production |-> Str("300 liters/day (including nighttime)"),
            aqi_improvement |-> Str("High improvement (8-15 points)")]),
        growth_characteristics |-> Dict([
            mature_height |-> Str("20-25 meters"),
            mature_spread |-> Str("12-15 meters canopy"),
            growth_rate |-> Str("Medium (1-2 meters per year)"),
            lifespan |-> Str("100-200 years"),
            space_requirements |-> Str("64-100 sq meters per tree (8-10 meters spacing)")]),
        sustainability_highlights |-> List(<<Str("24-hour oxygen production"), Str("Sacred cultural significance"), Str("Wildlife habitat support"), Str("Exceptionally long-lived")>>),
        planting_window |-> Dict([
            best_months |-> List(<<Str("June"), Str("July"), Str("August")>>),
            can_plant_now |-> Bool(TRUE),
            planting_window_justification |-> Str("Monsoon months are generally ideal for tree establishment in India."),
            planting_mitigation_steps |-> Str("If planting outside monsoon, use irrigation and shade nets for establishment.")])])>>)

local_partial_record(scientific, common, local) ==
    Dict([
    scientific_name |-> Str(scientific),
    common_name |-> Str(common),
    local_name |-> Str(local),
    plant_type |-> Str("Tree"),
    family |-> Str("Plant Family"),
    suitability_score |-> Str("8/10"),
    suitability_analysis |-> Str("This plant is well-suited for your environmental conditions based on local climate analysis."),
    water_requirements |-> Dict([
        seedling_stage |-> Str("5-10 liters per week"),
        mature_plant |-> Str("25-40 liters per week"),
        dry_season_adjustment |-> Str("Add 10-15 liters per week"),
        monsoon_reduction |-> Str("Reduce to 10-15 liters per week")]),
    sunlight_requirements |-> Dict([
        daily_hours_needed |-> Str("6-8 hours"),
        light_intensity |-> Str("Full Sun"),
        optimal_direction |-> Str("South facing")]),
    air_quality_benefits |-> Dict([
        pollution_reduction |-> Str("PM2.5, dust particles"),
        co2_absorption |-> Str("25 kg/year"),
        oxygen_production |-> Str("20 liters/day"),
        aqi_improvement |-> Str("Moderate improvement")]),
    growth_characteristics |-> Dict([
        growth_rate |-> Str("Medium"),
        mature_height |-> Str("3-5 meters"),
        spacing_requirements |-> Str("2-3 meters apart")]),
    sustainability_highlights |-> List(<<Str("Good air purification"), Str("Low maintenance"), Str("Native species")>>),
    planting_window |-> Dict([
        best_months |-> List(<<Str("June"), Str("July"), Str("August")>>),
        can_plant_now |-> Bool(TRUE),
        planting_window_justification |-> Str("Monsoon window in India is typically best for establishment"),
        planting_mitigation_steps |-> Str("If off-window, use container-grown seedlings, mulch and increased watering for 4-6 weeks.")])])

\* [ret |-> the list returned, stage |-> "partial" or "fallback"]
local_extract_partial_recommendations(text) ==
    IF ~IsStr(text) THEN
        \* re.findall raises TypeError, caught: the static fallback
        [ret |-> local_create_fallback_recommendations, stage |-> "fallback"]
    ELSE
    With(findall_field(text.v, "scientific_name", 0), LAMBDA scientific_names :
    With(findall_field(text.v, "common_name", 0), LAMBDA common_names :
    With(findall_field(text.v, "local_name", 0), LAMBDA local_names :
        IF Len(scientific_names) > 0
        THEN [ret |-> List([i \in 1..Min2(Len(scientific_names), MaxPlants) |->
                        local_partial_record(
                            scientific_names[i],
                            IF i <= Len(common_names) THEN common_names[i]
                            ELSE "Common Plant " \o IndexText(i),
                            IF i <= Len(local_names) THEN local_names[i]
                            ELSE "hi hi " \o IndexText(i))]),
              stage |-> "partial"]
        ELSE [ret |-> local_create_fallback_recommendations, stage |-> "fallback"])))

\* ', '.join(x) for a truthy value x; Raised when x cannot be joined
join_value(x) ==
    CASE IsStr(x) -> Str(Join([i \in 1..Len(x.v) |-> Ch(x.v, i - 1)]))
      [] IsDict(x) -> Str(Join(KeysSeq(DOMAIN x.v)))
      [] IsList(x) -> IF \A i \in 1..Len(x.v) : IsStr(x.v[i])
                      THEN Str(Join([i \in 1..Len(x.v) |-> x.v[i].v]))
                      ELSE Raised
      [] OTHER -> Raised

\* the planting window inferred from plantation_guide.best_season
\* (local_api.py:840-860)
best_months_of(best_season) ==
    With(IF IsStr(best_season) THEN Lower(best_season.v) ELSE "", LAMBDA season :
        IF Contains(season, "monsoon") THEN <<"June", "July", "August", "September">>
        ELSE IF Contains(season, "post-monsoon") THEN <<"October", "November">>
        ELSE IF Contains(season, "winter") THEN <<"December", "January", "February">>
        ELSE <<"June", "July", "August">>)

inferred_planting_window(rec) ==
    With(Get(rec, "plantation_guide", EmptyDict), LAMBDA plantation_guide :
    With(best_months_of(IF IsDict(plantation_guide)
                        THEN Get(plantation_guide, "best_season", Str("")) ELSE Str("")),
         LAMBDA best_months :
        Dict([
            best_months |-> List([i \in 1..Len(best_months) |-> Str(best_months[i])]),
            can_plant_now |-> Bool(TRUE),
            planting_window_justification |->
                Str("Defaulted to " \o Join(best_months)
                    \o " based on common regional planting windows."),
            planting_mitigation_steps |->
                Str("If off-window, use container seedlings, mulching and increased watering during establishment.")])))

\* the water value the adapter reads (local_api.py:732-740)
adapter_water_needs(rec) ==
    With(Or(Get(rec, "water_requirements", None), Get(rec, "water_needs", EmptyDict)),
         LAMBDA found :
        IF IsStr(found) THEN
            Dict([seedling_stage |-> Str("5-10 liters per week"),
                  mature_plant |-> Str("25-40 liters per week"),
                  dry_season_adjustment |-> Str("Add 10-15 liters per week"),
                  monsoon_reduction |-> Str("Reduce to 10-20 liters per week")])
        ELSE found)

\* the sunlight value the adapter reads (local_api.py:744-750)
adapter_sunlight(rec) ==
    With(Or(Get(rec, "sunlight_requirements", None), Get(rec, "sunlight", EmptyDict)),
         LAMBDA found :
    With(IsStr(found) /\ Contains(Lower(found.v), "full"), LAMBDA full :
        IF IsStr(found) THEN
            Dict([daily_hours_needed |-> Str(IF full THEN "6-8 hours" ELSE "4-6 hours"),
                  light_intensity |-> Str(IF full THEN "Full Sun" ELSE "Partial Sun"),
                  optimal_direction |-> Str("South facing")])
        ELSE found))

\* the text of additional_uses (local_api.py:836)
additional_uses_of(benefits) ==
    IF Truthy(benefits) THEN join_value(benefits)
    ELSE Str("Multiple environmental and aesthetic benefits")

\* d.get(key, default) with a text default, and its nested form
GetText(d, k, default) == Get(d, k, Str(default))
GetText2(d, k, k2, default) == Get(d, k, Get(d, k2, Str(default)))

\* the record the adapter builds from rec and the values it read
local_enhanced(rec, water_needs, sunlight, spacing, additional_uses) ==
    Dict([
        scientific_name |-> GetText(rec, "scientific_name", "Unknown Species"),
        common_name |-> GetText(rec, "common_name", "Unknown Plant"),
        local_name |-> GetText(rec, "local_name", "hi hi hi"),
        plant_type |-> GetText(rec, "plant_type", "Tree"),
        family |-> GetText(rec, "family", "Plant Family"),
        suitability_score |-> Str(Format(Get(rec, "suitability_score", PyInt(8))) \o "/10"),
        suitability_analysis |->
            Str("This " \o Format(GetText(rec, "common_name", "plant"))
                \o " is well-suited for your environmental conditions, requiring "
                \o Format(GetText(water_needs, "mature", "25-40 liters per week")) \o " water when mature and "
                \o Format(GetText(sunlight, "daily_hours", "6-8 hours")) \o " of daily sunlight."),
        environmental_impact_score |-> Get(rec, "suitability_score", PyInt(8)),
        water_requirements |-> Dict([
            seedling_stage |-> GetText(water_needs, "seedling", "5-10 liters per week for first 6 months"),
            young_plant |-> Str("15-25 liters per week for young plants"),
            mature_plant |-> GetText(water_needs, "mature", "25-40 liters per week for mature plants"),
            dry_season_adjustment |-> GetText(water_needs, "dry_season", "Add 10-15 liters per week during summer"),
            monsoon_reduction |-> GetText(water_needs, "monsoon", "Reduce to 10-20 liters per week during monsoon"),
            water_conservation_methods |->
                Str("Drip irrigation: 2-4 liters/hour, Mulching: 5cm deep, Rainwater harvesting recommended")]),
        sunlight_requirements |-> Dict([
            daily_hours_needed |-> GetText(sunlight, "daily_hours", "6-8 hours"),
            light_intensity |-> GetText(sunlight, "type", "Full Sun"),
            optimal_direction |-> GetText(sunlight, "best_direction", "South facing recommended"),
            shade_tolerance |-> Str("Can tolerate 1-2 hours less sunlight if needed"),
            seasonal_adjustments |-> Str("May need partial shade during peak summer (12-3 PM)")]),
        air_quality_benefits |-> Dict([
            pollution_reduction |-> Str("PM2.5, dust particles, CO2"),
            co2_absorption |-> Str("25-50 kg per year"),
            oxygen_production |-> Str("20-40 liters per day"),
            aqi_improvement |-> Str("Moderate to significant improvement")]),
        growth_characteristics |-> Dict([
            mature_height |-> GetText(rec, "mature_height", "3-5 meters"),
            mature_spread |-> Str(Replace(spacing.v, " apart", "") \o " canopy spread"),
            growth_rate |-> GetText(rec, "growth_rate", "Medium growth rate"),
            lifespan |-> Str("15-30 years"),
            space_requirements |->
                Str(Format(GetText(rec, "spacing", "3 meters apart")) \o " minimum spacing")]),
        sustainability_highlights |->
            Get(rec, "benefits", List(<<Str("Air purification"), Str("Carbon absorption"),
                                        Str("Oxygen production")>>)),
        plantation_guide |-> Dict([
            best_season |-> Str("Monsoon season (June-September) or post-monsoon (October-November)"),
            soil_preparation |->
                Str("Dig pit 60x60x60cm, mix 5kg compost, suitable for "
                    \o Format(GetText(rec, "plant_type", "tree")) \o " planting"),
            planting_method |->
                Str("Plant with " \o Format(GetText(rec, "spacing", "3 meter spacing"))
                    \o ", water immediately with "
                    \o Format(GetText2(water_needs, "mature_plant", "mature", "15-20 liters"))),
            initial_care |->
                Str("Water with " \o Format(GetText2(water_needs, "seedling_stage", "seedling", "5-10 liters"))
                    \o " during establishment (first 4 weeks)")]),
        watering_patterns |-> Dict([
            seedling_stage |->
                Str(Format(GetText2(water_needs, "seedling_stage", "seedling", "5-10 liters per week"))
                    \o " during establishment"),
            young_plant |->
                Str(Format(GetText(water_needs, "young_plant", "15-25 liters per week")) \o " for young plants"),
            mature_plant |->
                Str(Format(GetText2(water_needs, "mature_plant", "mature", "25-40 liters per week"))
                    \o " for mature plants"),
            seasonal_variations |->
                Str("Summer: "
                    \o Format(GetText2(water_needs, "dry_season_adjustment", "dry_season", "add 10-15L/week"))
                    \o ", Monsoon: "
                    \o Format(GetText2(water_needs, "monsoon_reduction", "monsoon", "reduce to 10-20L/week")))]),
        maintenance_schedule |-> Dict([
            daily |-> Str("Check soil moisture, water if needed with "
                          \o Format(GetText(water_needs, "seedling", "1-2 liters")) \o " during first month"),
            weekly |-> Str("Deep watering with " \o Format(GetText(water_needs, "mature", "25-40 liters"))
                           \o " for mature plants"),
            monthly |-> Str("Pruning if needed, fertilizer application, pest inspection"),
            seasonal |-> Str("Adjust watering based on monsoon/dry season, seasonal pruning"),
            annual |-> Str("Major health assessment, soil amendment, structural pruning")]),
        economic_benefits |-> Dict([
            initial_cost |-> GetText(rec, "initial_cost", "₹50-200 per plant"),
            maintenance_cost_annual |-> Str("₹100-500 per plant per year"),
            economic_returns |-> Str("Environmental benefits, potential fruit/timber value"),
            property_value_impact |-> Str("2-5% increase in property value"),
            long_term_savings |-> Str("Reduced air conditioning costs, health benefits")]),
        user_goal_alignment |->
            Str("This " \o Format(GetText(rec, "common_name", "plant"))
                \o " aligns perfectly with your environmental goals, requiring specific care of "
                \o Format(GetText(sunlight, "daily_hours", "6-8 hours")) \o " daily sunlight and "
                \o Format(GetText(water_needs, "mature", "moderate water"))
                \o " for optimal growth and maximum environmental benefits."),
        additional_uses |-> additional_uses,
        companion_plants |->
            Str("Compatible with other native species in mixed plantation schemes"),
        planting_window |->
            IF Truthy(Get(rec, "planting_window", None)) THEN rec.v["planting_window"]
            ELSE inferred_planting_window(rec)])

\* one record of enhance_local_recommendations_for_ui; Raised when rec, the
\* water value or the sunlight value is no dict (no .get), when spacing is
\* no str (no .replace) or when benefits cannot be joined
local_enhance_record(rec) ==
    IF ~IsDict(rec) THEN Raised
    ELSE
    With(adapter_water_needs(rec), LAMBDA water_needs :
    With(adapter_sunlight(rec), LAMBDA sunlight :
    With(Get(rec, "spacing", Str("3 meters")), LAMBDA spacing :
    With(additional_uses_of(Get(rec, "benefits", List(<<>>))), LAMBDA additional_uses :
        IF ~IsDict(water_needs) \/ ~IsDict(sunlight) \/ ~IsStr(spacing)
           \/ IsRaised(additional_uses) THEN Raised
        ELSE local_enhanced(rec, water_needs, sunlight, spacing, additional_uses)))))

\* enhance_local_recommendations_for_ui(recommendations) for a non-empty list
enhance_local_recommendations_for_ui(recommendations) ==
    ForEach(recommendations.v, local_enhance_record)

\* `for rec in data: normalize_recommendation_fields(rec)` over a list, or
\* over what iterating a str or dict yields (their items are no dicts)
normalize_all(data) ==
    IF ~IsList(data) THEN Raised
    ELSE ForEach(data.v, normalize_recommendation_fields)

\* normalization, then the UI adapter (local_api.py:419-422, 458-461)
normalize_and_enhance(data) ==
    With(normalize_all(data), LAMBDA normalized :
        IF IsRaised(normalized) THEN Raised
        ELSE enhance_local_recommendations_for_ui(normalized))

\* the try block of the object-structure path (local_api.py:453-463) on the
\* span cut out; attempts counts the json.loads calls before it
local_try_object(response_text, cleaned_text, span, attempts, seen) ==
    With(json_loads(clean_json_string(span)), LAMBDA r :
    With(IF r.ok THEN Get(r.val, "recommendations", List(<<>>)) ELSE None,
         LAMBDA recommendations :
        IF Truthy(recommendations) THEN
            With(normalize_and_enhance(recommendations), LAMBDA out :
                IF IsRaised(out) THEN
                    \* the outer handler, from the raw text
                    local_extract_partial_recommendations(response_text)
                        @@ [attempts |-> attempts + 1, span |-> seen]
                ELSE [ret |-> out, stage |-> "object",
                      attempts |-> attempts + 1, span |-> seen])
        ELSE local_extract_partial_recommendations(Str(cleaned_text))
                @@ [attempts |-> attempts + 1, span |-> seen]))

\* the object-structure path of parse_enhanced_local_response
\* (local_api.py:434-466); array_span is the array the first path cut out
local_parse_object(response_text, cleaned_text, attempts, array_span) ==
    With(Find(cleaned_text, "{"), LAMBDA start_idx :
    With(matching_end(cleaned_text, "{", "}", start_idx, 0), LAMBDA end_idx :
        IF start_idx # -1 /\ end_idx # -1 THEN
            With(Slice(cleaned_text, start_idx, end_idx), LAMBDA span :
                local_try_object(response_text, cleaned_text, span, attempts,
                                 IF array_span # None THEN array_span ELSE Str(span)))
        ELSE local_extract_partial_recommendations(Str(cleaned_text))
                @@ [attempts |-> attempts, span |-> array_span]))

\* the try block of the array path (local_api.py:415-432) on the span cut
\* out; stage "object" with nothing returned: control leaves the block and
\* reaches the object-structure path
local_try_array(response_text, span) ==
    With(clean_json_string(span), LAMBDA json_str :
    With(json_loads(json_str), LAMBDA r :
        IF r.ok THEN
            IF IsList(r.val) /\ Len(r.val.v) > 0 THEN
                With(normalize_and_enhance(r.val), LAMBDA out :
                    IF IsRaised(out) THEN
                        \* the outer handler, from the raw text
                        local_extract_partial_recommendations(response_text)
                            @@ [attempts |-> 1]
                    ELSE [ret |-> out, stage |-> "parsed", attempts |-> 1])
            ELSE [ret |-> None, stage |-> "object", attempts |-> 1]
        ELSE
            With(json_loads(local_fix_json_error(json_str, r)), LAMBDA r2 :
            With(IF r2.ok /\ IsList(r2.val) /\ Len(r2.val.v) > 0
                 THEN enhance_local_recommendations_for_ui(r2.val) ELSE Raised,
                 LAMBDA out2 :
                IF IsRaised(out2)
                THEN [ret |-> None, stage |-> "object", attempts |-> 2]
                ELSE [ret |-> out2, stage |-> "repaired", attempts |-> 2]))))

\* [ret |-> what parse_enhanced_local_response returns,
\*  stage |-> the stage that produced it: "parsed" (the array as it stood),
\*            "repaired" (the array after fix_json_error), "object",
\*            "partial" or "fallback",
\*  attempts |-> json.loads calls,
\*  span |-> the text structural extraction cut out (None: no structure)]
parse_enhanced_local_response(response_text) ==
    IF ~IsStr(response_text) THEN
        \* .strip() raises, caught by the outer handler
        local_extract_partial_recommendations(response_text)
            @@ [attempts |-> 0, span |-> None]
    ELSE
    With(strip_code_fences(response_text.v), LAMBDA cleaned_text :
    With(Find(cleaned_text, "["), LAMBDA array_start :
    With(matching_end(cleaned_text, "[", "]", array_start, 0), LAMBDA end_idx :
    With(IF array_start = -1 \/ end_idx = -1 THEN None
         ELSE Str(Slice(cleaned_text, array_start, end_idx)), LAMBDA array_span :
    With(IF array_span = None THEN [ret |-> None, stage |-> "object", attempts |-> 0]
         ELSE local_try_array(response_text, array_span.v), LAMBDA tried :
        IF tried.ret = None
        THEN local_parse_object(response_text, cleaned_text, tried.attempts, array_span)
        ELSE tried @@ [span |-> array_span])))))

(***************************************************************************)
(* Numeric extraction: src/src/components/report_generator.py              *)
(***************************************************************************)
\* the index after the number (digits, then optionally a point and digits)
\* that starts at the digit at k
NumberEndAt(t, k) ==
    With(SkipDigits(t, k), LAMBDA d1 :
        IF Ch(t, d1) = "." /\ Ch(t, d1 + 1) \in Digits THEN SkipDigits(t, d1 + 1) ELSE d1)

\* float(text) of a number text, in thousandths
Thousandths(num) ==
    With(SkipDigits(num, 0), LAMBDA d1 :
        DigitsValue(Slice(num, 0, d1), 0) * 1000
            + DigitsValue(Slice(From(num, d1 + 1) \o "000", 0, 3), 0))

\* re.findall(pattern, t)[0] for the patterns of one number followed by
\* optional whitespace and a unit: the number's text, "" when no match.
\* `units` holds the texts one of which must follow.
RECURSIVE first_with_unit(_, _, _)
first_with_unit(t, units, i) ==
    With(FindAny(t, Digits, i), LAMBDA k :
    With(NumberEndAt(t, k), LAMBDA e :
        IF k = -1 THEN ""
        ELSE IF \E u \in units : StartsAt(t, u, SkipWs(t, e)) THEN Slice(t, k, e)
        ELSE first_with_unit(t, units, k + 1)))

\* the second number of a range whose first number is t[k:e] and whose
\* separator starts at j: the pair of number texts, <<>> when j starts no
\* separator of `seps` or no digit follows it
range_at(t, seps, spaced, k, e, j) ==
    IF ~\E s \in seps : StartsAt(t, s, j) THEN <<>>
    ELSE
    With(j + Len(CHOOSE s \in seps : StartsAt(t, s, j)), LAMBDA after :
    With(IF spaced THEN SkipWs(t, after) ELSE after, LAMBDA k2 :
        IF Ch(t, k2) \in Digits
        THEN <<Slice(t, k, e), Slice(t, k2, NumberEndAt(t, k2))>>
        ELSE <<>>))

\* re.findall(pattern, t)[0] for the two range patterns: the pair of number
\* texts, <<>> when no match.  `seps` holds the separators: "-" with no
\* whitespace around it, or the words "to" and "or" with optional whitespace.
RECURSIVE first_range(_, _, _, _)
first_range(t, seps, spaced, i) ==
    With(FindAny(t, Digits, i), LAMBDA k :
    With(NumberEndAt(t, k), LAMBDA e :
    With(IF k = -1 THEN <<>>
         ELSE range_at(t, seps, spaced, k, e, IF spaced THEN SkipWs(t, e) ELSE e),
         LAMBDA pair :
        IF k = -1 \/ pair # <<>> THEN pair
        ELSE first_range(t, seps, spaced, k + 1))))

\* re.findall(pattern, t)[0] for a number after about, approximately, around
\* or roughly: the number's text, "" when no match
RECURSIVE first_about(_, _)
first_about(t, i) ==
    With(FindIn(t, {"about", "approximately", "around", "roughly"}, i, Len(t) - 1),
         LAMBDA p :
        IF p = -1 THEN ""
        ELSE
        With(SkipWs(t, p + Len(CHOOSE x \in {"about", "approximately", "around", "roughly"} :
                                   StartsAt(t, x, p))), LAMBDA k :
            IF Ch(t, k) \in Digits THEN Slice(t, k, NumberEndAt(t, k))
            ELSE first_about(t, p + 1)))

\* int(float(text)) of a number text
int_of(num) == Thousandths(num) \div 1000
\* int((float(a) + float(b)) / 2) of a pair of number texts
mean_of(pair) == (Thousandths(pair[1]) + Thousandths(pair[2])) \div 2000

\* the value of the qualitative words (report_generator.py:29-42),
\* -1 when the text holds none of them
qualitative_value(t) ==
    IF \E phrase \in {"not specified", "not available", "data not", "unknown"} :
          Contains(t, phrase) THEN 25
    ELSE IF Contains(t, "excellent") \/ Contains(t, "very high") THEN 40
    ELSE IF Contains(t, "high") \/ Contains(t, "good") THEN 35
    ELSE IF Contains(t, "moderate") \/ Contains(t, "medium") THEN 25
    ELSE IF Contains(t, "low") \/ Contains(t, "poor") THEN 15
    ELSE IF Contains(t, "very low") THEN 10
    ELSE -1

\* the first of the unit patterns that matches (report_generator.py:46-49):
\* the number's text, "" when none matches
first_unit_match(t) ==
    With(first_with_unit(t, {"kg", "kilogram"}, 0), LAMBDA kg :
    IF kg # "" THEN kg ELSE
    With(first_with_unit(t, {"l"}, 0), LAMBDA liters :
    IF liters # "" THEN liters ELSE
    With(first_with_unit(t, {"m"}, 0), LAMBDA meters :
    IF meters # "" THEN meters ELSE first_with_unit(t, {"₹", "rs", "rupee"}, 0))))

\* the first of the two range patterns that matches, <<>> when none does
first_range_match(t) ==
    With(first_range(t, {"-"}, FALSE, 0), LAMBDA dash :
        IF dash # <<>> THEN dash ELSE first_range(t, {"to", "or"}, TRUE, 0))

\* the patterns tried in order on the lowered text (report_generator.py:45-74)
pattern_value(t) ==
    With(first_unit_match(t), LAMBDA unit :
    IF unit # "" THEN int_of(unit) ELSE
    With(first_range_match(t), LAMBDA pair :
    IF pair # <<>> THEN mean_of(pair) ELSE
    With(first_about(t, 0), LAMBDA about :
    IF about # "" THEN int_of(about) ELSE
    With(FindAny(t, Digits, 0), LAMBDA k :
        IF k # -1 THEN int_of(Slice(t, k, NumberEndAt(t, k))) ELSE 25))))

extract_number_from_text(text) ==
    IF ~Truthy(text) \/ text = Str("N/A") \/ text = Str("Unknown") THEN 25
    ELSE
    With(Strip(Lower(Format(text))), LAMBDA t :
    With(qualitative_value(t), LAMBDA word :
        IF word # -1 THEN word ELSE pattern_value(t)))

(***************************************************************************)
(* Area conversion and validation: src/src/utils/data_processor.py         *)
(***************************************************************************)
\* the conversion table as sorted(conversions.items(), key=len, reverse=True)
\* leaves it; a factor is whole + millionths / 1000000
sorted_units ==
    <<[unit |-> "square meter", whole |-> 1, millionths |-> 0],
       [unit |-> "square metre", whole |-> 1, millionths |-> 0],
       [unit |-> "square feet", whole |-> 0, millionths |-> 92903],
       [unit |-> "square foot", whole |-> 0, millionths |-> 92903],
       [unit |-> "square yard", whole |-> 0, millionths |-> 836127],
       [unit |-> "hectares", whole |-> 10000, millionths |-> 0],
       [unit |-> "hectare", whole |-> 10000, millionths |-> 0],
       [unit |-> "bighas", whole |-> 2529, millionths |-> 290000],
       [unit |-> "kathas", whole |-> 338, millionths |-> 960000],
       [unit |-> "gundas", whole |-> 100, millionths |-> 840000],
       [unit |-> "sq ft", whole |-> 0, millionths |-> 92903],
       [unit |-> "sq yd", whole |-> 0, millionths |-> 836127],
       [unit |-> "acres", whole |-> 4046, millionths |-> 860000],
       [unit |-> "bigha", whole |-> 2529, millionths |-> 290000],
       [unit |-> "katha", whole |-> 338, millionths |-> 960000],
       [unit |-> "gunda", whole |-> 100, millionths |-> 840000],
       [unit |-> "sq m", whole |-> 1, millionths |-> 0],
       [unit |-> "yard", whole |-> 0, millionths |-> 836127],
       [unit |-> "acre", whole |-> 4046, millionths |-> 860000],
       [unit |-> "ft2", whole |-> 0, millionths |-> 92903],
       [unit |-> "ft²", whole |-> 0, millionths |-> 92903],
       [unit |-> "yd2", whole |-> 0, millionths |-> 836127],
       [unit |-> "yd²", whole |-> 0, millionths |-> 836127],
       [unit |-> "m2", whole |-> 1, millionths |-> 0],
       [unit |-> "m²", whole |-> 1, millionths |-> 0],
       [unit |-> "ha", whole |-> 10000, millionths |-> 0]>>

\* the characters the unit group of the pattern accepts: a-z, the
\* superscript two and whitespace
UnitChars ==
    Whitespace \cup {"²"} \cup {Ch("abcdefghijklmnopqrstuvwxyz", n) : n \in 0..25}

\* the index after the run of unit characters that starts at j
RECURSIVE SkipUnitChars(_, _)
SkipUnitChars(t, j) == IF Ch(t, j) \in UnitChars THEN SkipUnitChars(t, j + 1) ELSE j

\* re.search of a number followed by optional whitespace and at least one
\* letter, superscript two or whitespace character: [number |-> its text,
\* unit |-> the run of such characters after it], number "" when no match
RECURSIVE search_number_unit(_, _)
search_number_unit(t, i) ==
    With(FindAny(t, Digits, i), LAMBDA k :
    With(NumberEndAt(t, k), LAMBDA e :
        IF k = -1 THEN [number |-> "", unit |-> ""]
        ELSE IF Ch(t, e) \in UnitChars
        THEN [number |-> Slice(t, k, e), unit |-> Slice(t, e, SkipUnitChars(t, e))]
        ELSE search_number_unit(t, k + 1)))

\* number * factor in hundredths of a square metre (rounded down), for a
\* number in hundredths and a factor of the table; the product is built
\* from parts that fit a 32-bit integer
times_factor(hundredths, f) ==
    With((hundredths \div 100) * f.millionths, LAMBDA whole_part :
        hundredths * f.whole + whole_part \div 10000
            + ((whole_part % 10000) * 100 + (hundredths % 100) * f.millionths)
                  \div 1000000)

\* the first entry of the sorted table whose key the unit text contains,
\* 0 when it contains none
first_unit_in(unit) ==
    With({n \in 1..Len(sorted_units) : Contains(unit, sorted_units[n].unit)},
         LAMBDA hits :
        IF hits = {} THEN 0 ELSE CHOOSE n \in hits : \A m \in hits : n <= m)

\* the value for a match of the number-and-unit pattern
converted(match) ==
    With(Thousandths(match.number) \div 10, LAMBDA number :
    With(first_unit_in(Strip(match.unit)), LAMBDA first :
        IF first # 0 THEN times_factor(number, sorted_units[first]) ELSE number))

\* the float returned, in hundredths of a square metre (rounded down)
convert_area_to_square_meters(area_text) ==
    IF ~Truthy(area_text) \/ ~IsStr(area_text) THEN 0
    ELSE
    With(Strip(Lower(area_text.v)), LAMBDA text :
    With(search_number_unit(text, 0), LAMBDA match :
    With(FindAny(text, Digits, 0), LAMBDA k :
        IF match.number # "" THEN converted(match)
        ELSE IF k # -1 THEN Thousandths(Slice(text, k, NumberEndAt(text, k))) \div 10
        ELSE 0)))

\* the value of an int or float in tenths (floats of one decimal)
Tenths(x) ==
    IF x.t = "int" THEN x.v * 10
    ELSE IF Ch(x.v, 0) = "-" THEN 0 - (Thousandths(From(x.v, 1)) \div 100)
    ELSE Thousandths(x.v) \div 100

\* the float literal of a value in tenths
FloatText(n) ==
    IF n < 0 THEN "-" \o IntText((0 - n) \div 10) \o "." \o IntText((0 - n) % 10)
    ELSE IntText(n \div 10) \o "." \o IntText(n % 10)

\* float(x) and int(x) of an int or float
py_float(x) == PyFloat(FloatText(Tenths(x)))
\* int() truncates toward zero
IntPart(n) == IF n < 0 THEN 0 - ((0 - n) \div 10) ELSE n \div 10
py_int(x) == PyInt(IntPart(Tenths(x)))

\* min(a, b) and max(a, b): the first argument on a tie
py_min(a, b) == IF Tenths(b) < Tenths(a) THEN b ELSE a
py_max(a, b) == IF Tenths(b) > Tenths(a) THEN b ELSE a

\* max(lo, min(hi, x))
clamp(lo, hi, x) == py_max(lo, py_min(hi, x))

\* a text of digits with an optional sign: what int(text) accepts
IsIntText(s) ==
    /\ Len(s) > 0
    /\ SkipDigits(s, IF Ch(s, 0) \in {"-", "+"} THEN 1 ELSE 0) = Len(s)
    /\ Ch(s, Len(s) - 1) \in Digits

\* a text of digits, a point and digits with an optional sign
IsDecimalText(s) ==
    \E p \in 1..(Len(s) - 2) :
        /\ Ch(s, p) = "."
        /\ IsIntText(Slice(s, 0, p))
        /\ SkipDigits(s, p + 1) = Len(s)

\* the int of a text of digits with an optional sign
SignedValue(s) ==
    IF Ch(s, 0) = "-" THEN 0 - DigitsValue(From(s, 1), 0)
    ELSE IF Ch(s, 0) = "+" THEN DigitsValue(From(s, 1), 0)
    ELSE DigitsValue(s, 0)

\* the number float(x) or int(x) reads from x, Raised when the conversion
\* raises: numbers convert, a str converts when its stripped text is a
\* number (for int(), a whole number), None and containers raise.  The str
\* values are plain decimal texts or texts that hold no number at all.
Number(x, as_int) ==
    CASE x.t \in {"int", "float"} -> x
      [] x.t = "bool" -> PyInt(IF x.v THEN 1 ELSE 0)
      [] x.t = "str" /\ IsIntText(Strip(x.v)) -> PyInt(SignedValue(Strip(x.v)))
      [] x.t = "str" /\ ~as_int /\ IsDecimalText(Strip(x.v)) ->
            PyFloat(IF Ch(Strip(x.v), 0) = "+" THEN From(Strip(x.v), 1) ELSE Strip(x.v))
      [] OTHER -> Raised

\* max(lo, min(hi, convert(value))) for the number the conversion read
converted_field(data, field, lo, hi, as_int, number) ==
    IF IsRaised(number) THEN Raised
    ELSE Put(data, field, clamp(lo, hi, IF as_int THEN py_int(number) ELSE py_float(number)))

\* `if data.get(field): data[field] = max(lo, min(hi, convert(data[field])))`
\* for convert = float (as_int FALSE) or int (as_int TRUE); Raised when an
\* earlier field or this conversion raised
validate_field(data, field, lo, hi, as_int) ==
    IF IsRaised(data) THEN Raised
    ELSE IF ~Truthy(Get(data, field, None)) THEN data
    ELSE converted_field(data, field, lo, hi, as_int, Number(data.v[field], as_int))

\* validate_environmental_data(data): the dict as the call leaves it, Raised
\* when it raises
validate_environmental_data(data) ==
    IF ~IsDict(data) THEN Raised
    ELSE
    validate_field(
        validate_field(
            validate_field(
                validate_field(
                    validate_field(data, "soil_ph", PyFloat("4.0"), PyFloat("9.0"), FALSE),
                    "temperature", PyInt(-10), PyInt(50), FALSE),
                "humidity", PyInt(0), PyInt(100), FALSE),
            "aqi", PyInt(0), PyInt(500), TRUE),
        "aqi_rating", PyInt(1), PyInt(5), TRUE)

(***************************************************************************)
(* The responses the recovery pipeline is run on                           *)
(***************************************************************************)
\* the most records a generated response holds
MaxRecords == 6

\* JSON texts of one recommendation record, as a model may send it: the
\* short ones fill the responses of many records
ShortRecordTexts == {"{}", "{\"scientific_name\": \"X\"}"}
RecordTexts ==
    ShortRecordTexts \cup
    {"{\"scientific_name\": \"Mangifera indica\", \"common_name\": \"Mango\", \"local_name\": \"Aam\", \"plant_type\": \"Fruit tree\", \"suitability_score\": 9, \"water_needs\": {\"seedling\": \"daily\", \"mature\": \"weekly\"}, \"sunlight\": \"full sun\", \"spacing\": \"8 meters apart\", \"benefits\": [\"shade\", \"fruit\"]}",
     "{\"scientific_name\": \"Ficus religiosa\", \"common_name\": \"Peepal\", \"local_name\": \"Pipal\", \"water_requirements\": {\"mature_plant\": \"30 liters per week\"}, \"sunlight_requirements\": {\"daily_hours_needed\": \"6 hours\"}, \"planting_window\": {\"best_months\": [\"June\"]}, \"sustainability_highlights\": [\"oxygen\"]}",
     "{\"scientific_name\": \"Y\", \"common_name\": \"Z\", \"benefits\": [], \"sustainability_highlights\": [], \"planting_window\": {\"best_months\": []}}"}

\* n copies of a record text, separated by commas
RECURSIVE Records(_, _)
Records(body, n) ==
    IF n = 0 THEN "" ELSE IF n = 1 THEN body ELSE body \o ", " \o Records(body, n - 1)

\* a JSON array of up to MaxRecords records, and an object that holds one
ArrayTexts ==
    {"[" \o Records(body, n) \o "]" : body \in ShortRecordTexts, n \in 0..MaxRecords}
ObjectTexts == {"{\"recommendations\": " \o a \o "}" : a \in ArrayTexts}

\* a response inside a markdown fence, and one after a sentence of prose
Wrapped(texts) ==
    {Fence \o "json\n" \o t \o "\n" \o Fence : t \in texts}
        \cup {"Here are the plants: " \o t : t \in texts}

\* the pieces of a JSON text before and after a trailing comma
CommaCuts ==
    {<<"{\"recommendations\":[{\"scientific_name\":\"X\"", "}]}">>,
     <<"{\"recommendations\":[{\"scientific_name\":\"X\"}", "]}">>,
     <<"[{\"scientific_name\":\"X\", \"common_name\":\"Y\"", "}]">>,
     <<"[{\"common_name\":\"Y\"}", "]">>}
TrailingCommaTexts ==
    {c[1] \o "," \o ws \o c[2] : c \in CommaCuts, ws \in {"", " ", "\n"}}
        \cup {c[1] \o c[2] : c \in CommaCuts}

\* JSON whose string values hold brackets and braces
BracketTexts ==
    {"[{\"scientific_name\": \"a]b\"}]",
     "[{\"scientific_name\": \"a[b\"}]",
     "{\"recommendations\": [{\"scientific_name\": \"a}b\"}]}",
     "{\"recommendations\": [{\"scientific_name\": \"a{b\"}]}",
     "[{\"scientific_name\": \"Ficus (fig) [sacred]\", \"common_name\": \"Peepal\"}]",
     "{\"recommendations\": [{\"scientific_name\": \"Ficus {sacred}\"}]}"}

\* JSON cut short, as a response that hit its length limit
TruncatedTexts(texts) ==
    {Slice(t, 0, (Len(t) * k) \div 4) : t \in texts, k \in 1..3}

\* text with no JSON structure and no quoted name field
ProseTexts ==
    {"", "   ", "this is not json at all and has no quoted fields",
     "I recommend planting Neem and Mango trees.", "null", "42", "true",
     "\"just a string\""}

\* quoted name fields outside any JSON structure, and JSON of other shapes
OtherTexts ==
    {"\"scientific_name\": \"Azadirachta indica\" \"common_name\": \"Neem\"",
     "\"scientific_name\": \"Azadirachta indica\"",
     "{\"a\": \"b\"}", "[1, 2]", "[[]]", "{\"recommendations\": \"none\"}",
     "{\"recommendations\": {}}", "{\"recommendations\": [1]}",
     "[{\"scientific_name\": \"A\"} {\"scientific_name\": \"B\"}]",
     "{\"recommendations\": [{\"scientific_name\": \"A\"} {\"scientific_name\": \"B\"}]}",
     "{\"recommendations\": [{\"scientific_name\": \"A\", \"common_name\": \"B"}

FullTexts ==
    {"[" \o Records(body, 2) \o "]" : body \in RecordTexts}
        \cup {"{\"recommendations\": [" \o body \o "]}" : body \in RecordTexts}

ResponseTexts ==
    ArrayTexts \cup ObjectTexts \cup Wrapped(FullTexts) \cup TrailingCommaTexts
        \cup BracketTexts \cup TruncatedTexts(FullTexts) \cup ProseTexts \cup OtherTexts

(***************************************************************************)
(* The recovery pipeline as a state machine: a response arrives (arg) and  *)
(* one backend parses it.  ret is what the parser returns; aux is the      *)
(* parser's record: ret, the stage that produced it, the json.loads calls  *)
(* made and the text structural extraction cut out.                        *)
(***************************************************************************)
Init ==
    /\ call = "none"
    /\ arg \in {Str(t) : t \in ResponseTexts}
    /\ ret = None
    /\ aux = None

\* gemini_api.py:97 get_recommendations -> parse_enhanced_gemini_response
ParseGemini ==
    /\ call = "none"
    /\ call' = "parse_enhanced_gemini_response"
    /\ aux' = parse_enhanced_gemini_response(arg)
    /\ ret' = aux'.ret
    /\ UNCHANGED arg

\* local_api.py:123 get_recommendations -> parse_enhanced_local_response
ParseLocal ==
    /\ call = "none"
    /\ call' = "parse_enhanced_local_response"
    /\ aux' = parse_enhanced_local_response(arg)
    /\ ret' = aux'.ret
    /\ UNCHANGED arg

Next == ParseGemini \/ ParseLocal

Spec == Init /\ [][Next]_vars

\* the call has returned
Parsed == call \in {"parse_enhanced_gemini_response", "parse_enhanced_local_response"}

\* d[k] when d is a dict that holds k, None otherwise
Field(d, k) == IF IsDict(d) /\ Has(d, k) THEN d.v[k] ELSE None

\* the response text the parser named by `backend` is applied to, and what
\* it returns for it
ParseOf(backend, text) ==
    IF backend = "parse_enhanced_gemini_response"
    THEN parse_enhanced_gemini_response(Str(text)).ret
    ELSE parse_enhanced_local_response(Str(text)).ret

(***************************************************************************)
(* Claims about the recovery pipeline, checked under Spec                  *)
(***************************************************************************)
\* C1: for every input text the recovery pipeline of each backend returns,
\* without raising, a list that holds at least one record; it never returns
\* an empty list or no value.
C1_AtLeastOneRecord ==
    Parsed => IsList(ret) /\ Len(ret.v) >= 1

\* C2: the list the recovery pipeline returns never holds more than 5
\* records, however many the JSON of the response holds; a response whose
\* recommendations hold n records, 1 <= n < 5, yields a list of n records.
C2_AtMostFiveRecords ==
    Parsed =>
        /\ IsList(ret) => Len(ret.v) <= MaxPlants
        /\ \A body \in ShortRecordTexts, n \in 1..(MaxPlants - 1) :
              arg = Str("{\"recommendations\": [" \o Records(body, n) \o "]}")
                  => IsList(ret) /\ Len(ret.v) = n

\* the four fields the user interface reads are there and not empty
SchemaComplete(rec) ==
    /\ Truthy(Field(Field(rec, "water_requirements"), "mature_plant"))
    /\ Truthy(Field(Field(rec, "sunlight_requirements"), "daily_hours_needed"))
    /\ Truthy(Field(Field(rec, "planting_window"), "best_months"))
    /\ Truthy(Field(rec, "sustainability_highlights"))

\* C3: every record the full pipeline returns, whichever stage produced it
\* and for both backends, has a non-empty water_requirements.mature_plant,
\* sunlight_requirements.daily_hours_needed, planting_window.best_months
\* and sustainability_highlights.
C3_SchemaComplete ==
    Parsed /\ IsList(ret) => \A i \in 1..Len(ret.v) : SchemaComplete(ret.v[i])

\* C5: a response that is valid JSON but for a trailing comma before a
\* closing brace or bracket, with or without whitespace or a newline
\* between the two, yields the records of the same text without the comma;
\* the text {"recommendations":[{"scientific_name":"X",}]} yields exactly
\* one record, whose scientific_name is X.
C5_TrailingCommaRepaired ==
    Parsed =>
        /\ \A c \in CommaCuts, ws \in {"", " ", "\n"} :
              arg = Str(c[1] \o "," \o ws \o c[2]) => ret = ParseOf(call, c[1] \o c[2])
        /\ arg = Str("{\"recommendations\":[{\"scientific_name\":\"X\",}]}")
              => /\ IsList(ret)
                 /\ Len(ret.v) = 1
                 /\ Field(ret.v[1], "scientific_name") = Str("X")

\* the opener structural extraction of the backend searches first
FirstOpener == IF call = "parse_enhanced_gemini_response" THEN "{" ELSE "["

\* C6: structural extraction returns the text from the first opening
\* bracket (local backend) or brace (Gemini backend) to its true matching
\* closer, the end of the JSON value that starts there: a closer inside a
\* quoted string value does not end the extraction early.
C6_ExtractionMatchesClosers ==
    Parsed /\ IsStr(arg) /\ Find(strip_code_fences(arg.v), FirstOpener) # -1
           /\ ScanOnce(strip_code_fences(arg.v),
                       Find(strip_code_fences(arg.v), FirstOpener)).ok
        => aux.span =
              Str(Slice(strip_code_fences(arg.v),
                        Find(strip_code_fences(arg.v), FirstOpener),
                        ScanOnce(strip_code_fences(arg.v),
                                 Find(strip_code_fences(arg.v), FirstOpener)).end))

\* the text has no JSON structure and no quoted name field
Unstructured(text) ==
    /\ ~Contains(text, "{")
    /\ ~Contains(text, "[")
    /\ \A field \in {"scientific_name", "common_name", "local_name"} :
          ~Contains(text, "\"" \o field \o "\"")

\* every field of the record holds a value, and so does every field of the
\* dicts it holds
FullyPopulated(rec) ==
    /\ IsDict(rec)
    /\ DOMAIN rec.v # {}
    /\ \A k \in DOMAIN rec.v :
          /\ Truthy(rec.v[k])
          /\ IsDict(rec.v[k]) => \A j \in DOMAIN rec.v[k].v : Truthy(rec.v[k].v[j])

\* the static fallback list of the backend that was called
FallbackOf(backend) ==
    IF backend = "parse_enhanced_gemini_response"
    THEN gemini_create_fallback_recommendations
    ELSE local_create_fallback_recommendations

Absent == [t |-> "absent", v |-> 0]
PutField(d, k, x) == IF x = Absent THEN d ELSE Put(d, k, x)

\* records as a model sends them: each field present or not, in the forms
\* the prompts ask for
RawRecords ==
    {PutField(PutField(PutField(PutField(PutField(
         Dict([scientific_name |-> Str("Mangifera indica"), common_name |-> Str("Mango")]),
         "water_needs", water), "sunlight", sun), "suitability_score", score),
         "benefits", benefits), "spacing", spacing) :
        water \in {Absent, Str("daily watering"),
                   Dict([seedling |-> Str("daily"), mature |-> Str("30 liters per week")])},
        sun \in {Absent, Str("full sun"), Dict([daily_hours |-> Str("6 hours")])},
        score \in {Absent, PyInt(9)},
        benefits \in {Absent, List(<<Str("shade"), Str("fruit")>>)},
        spacing \in {Absent, Str("8 meters apart")}}

InitNormalize ==
    /\ call = "none"
    /\ arg \in RawRecords
    /\ ret = None
    /\ aux = None

\* local_api.py:419-422: normalize_recommendation_fields on each record,
\* then enhance_local_recommendations_for_ui
AdaptLocal ==
    /\ call = "none"
    /\ call' = "enhance_local_recommendations_for_ui"
    /\ ret' = normalize_and_enhance(List(<<arg>>))
    /\ UNCHANGED <<arg, aux>>

\* the local adapter applied to its own output; aux keeps the first output
AdaptLocalAgain ==
    /\ call = "enhance_local_recommendations_for_ui"
    /\ call' = "enhance_local_recommendations_for_ui again"
    /\ aux' = ret
    /\ ret' = normalize_and_enhance(ret)
    /\ UNCHANGED arg

\* gemini_api.py:455: enhance_recommendations_for_ui
AdaptGemini ==
    /\ call = "none"
    /\ call' = "enhance_recommendations_for_ui"
    /\ ret' = gemini_enhance_recommendations_for_ui(List(<<arg>>))
    /\ UNCHANGED <<arg, aux>>

\* the Gemini adapter applied to its own output; aux keeps the first output
AdaptGeminiAgain ==
    /\ call = "enhance_recommendations_for_ui"
    /\ call' = "enhance_recommendations_for_ui again"
    /\ aux' = ret
    /\ ret' = gemini_enhance_recommendations_for_ui(ret)
    /\ UNCHANGED arg

NextNormalize == AdaptLocal \/ AdaptLocalAgain \/ AdaptGemini \/ AdaptGeminiAgain

SpecNormalize == InitNormalize /\ [][NextNormalize]_vars

\* C4: record normalization is idempotent: the UI adapter applied a second
\* time to its own output yields the record of the first application, for
\* the local adapter (normalize_recommendation_fields, then
\* enhance_local_recommendations_for_ui) and for the Gemini adapter
\* (enhance_recommendations_for_ui).
C4_NormalizationIdempotent ==
    call \in {"enhance_local_recommendations_for_ui again",
              "enhance_recommendations_for_ui again"} => ret = aux

(***************************************************************************)
(* extract_number_from_text applied to a text of a report                  *)
(***************************************************************************)
NumberTexts ==
    {prefix \o amount \o unit :
        prefix \in {"", "about ", "Yield: "},
        amount \in {"25", "20-25", "20 to 25", "2.5", "7"},
        unit \in {"", " kg", " liters", " meters per year"}}
        \cup {"", "excellent", "not specified", "N/A", "Unknown", "good",
              "very low", "moderate", "poor", "Very High", "no number here"}

InitNumber ==
    /\ call = "none"
    /\ arg \in {Str(t) : t \in NumberTexts} \cup {None, PyInt(30), PyInt(0)}
    /\ ret = None
    /\ aux = None

ExtractNumber ==
    /\ call = "none"
    /\ call' = "extract_number_from_text"
    /\ ret' = PyInt(extract_number_from_text(arg))
    /\ UNCHANGED <<arg, aux>>

NextNumber == ExtractNumber

SpecNumber == InitNumber /\ [][NextNumber]_vars

\* C8: extract_number_from_text returns 25 for "25 kg", 22 for
\* "20-25 liters" (the mean of the range, rounded), 40 for "excellent",
\* 25 for the empty string and 25 for "not specified".
C8_NumberExamples ==
    call = "extract_number_from_text" =>
        /\ arg = Str("25 kg") => ret = PyInt(25)
        /\ arg = Str("20-25 liters") => ret = PyInt(22)
        /\ arg = Str("excellent") => ret = PyInt(40)
        /\ arg = Str("") => ret = PyInt(25)
        /\ arg = Str("not specified") => ret = PyInt(25)

(***************************************************************************)
(* convert_area_to_square_meters applied to a text of an area              *)
(***************************************************************************)
\* the numbers of the area texts, and each in hundredths
AreaNumbers == {"2", "0.5", "100"}
Hundredths(number) == Thousandths(number) \div 10

\* the units of the conversion table
TableUnits == {sorted_units[n].unit : n \in 1..Len(sorted_units)}
FactorOf(unit) ==
    sorted_units[CHOOSE n \in 1..Len(sorted_units) : sorted_units[n].unit = unit]

AreaTexts ==
    {number \o sep \o unit : number \in AreaNumbers, sep \in {" ", ""}, unit \in TableUnits}
        \cup {"", "   ", "a large plot", "acres", "100", "about 2 acres of land"}

InitArea ==
    /\ call = "none"
    /\ arg \in {Str(t) : t \in AreaTexts} \cup {None, PyInt(100), List(<<Str("2 acres")>>)}
    /\ ret = None
    /\ aux = None

\* ret holds the float returned in hundredths of a square metre
ConvertArea ==
    /\ call = "none"
    /\ call' = "convert_area_to_square_meters"
    /\ ret' = PyInt(convert_area_to_square_meters(arg))
    /\ UNCHANGED <<arg, aux>>

NextArea == ConvertArea

SpecArea == InitArea /\ [][NextArea]_vars

\* C9: convert_area_to_square_meters multiplies the leading number by the
\* factor of the unit named in the text, for every unit of its table;
\* "2 acres" gives about 8093.7, "0.5 hectare" 5000 and "100 sq ft" about
\* 9.29; a text with no number, or a value that is no string, gives 0.0.
C9_AreaConversion ==
    call = "convert_area_to_square_meters" =>
        /\ \A number \in AreaNumbers, unit \in TableUnits :
              arg = Str(number \o " " \o unit)
                  => ret = PyInt(times_factor(Hundredths(number), FactorOf(unit)))
        /\ arg = Str("2 acres") => ret.v \in 809370..809379
        /\ arg = Str("0.5 hectare") => ret = PyInt(500000)
        /\ arg = Str("100 sq ft") => ret = PyInt(929)
        /\ (~IsStr(arg) \/ FindAny(arg.v, Digits, 0) = -1) => ret = PyInt(0)

(***************************************************************************)
(* validate_environmental_data applied to an environmental profile         *)
(***************************************************************************)
\* the ranges of the numeric fields, in tenths
Ranges ==
    [soil_ph |-> [lo |-> 40, hi |-> 90],
     temperature |-> [lo |-> -100, hi |-> 500],
     humidity |-> [lo |-> 0, hi |-> 1000],
     aqi |-> [lo |-> 0, hi |-> 5000],
     aqi_rating |-> [lo |-> 10, hi |-> 50]]

Profiles ==
    {PutField(PutField(PutField(PutField(PutField(
         Dict([location |-> Str("Pune")]),
         "soil_ph", soil_ph), "temperature", temperature), "humidity", humidity),
         "aqi", aqi), "aqi_rating", aqi_rating) :
        soil_ph \in {Absent, PyFloat("11.0"), PyFloat("6.5"), PyFloat("3.0"), PyInt(0)},
        temperature \in {Absent, PyInt(60), PyFloat("25.5"), PyInt(-20)},
        humidity \in {Absent, PyInt(120), PyInt(55), PyInt(-5)},
        aqi \in {Absent, PyInt(600), PyInt(150), PyFloat("75.6")},
        aqi_rating \in {Absent, PyInt(7), PyInt(3), PyInt(0)}}

InitValidate ==
    /\ call = "none"
    /\ arg \in Profiles
    /\ ret = None
    /\ aux = None

Validate ==
    /\ call = "none"
    /\ call' = "validate_environmental_data"
    /\ ret' = validate_environmental_data(arg)
    /\ UNCHANGED <<arg, aux>>

NextValidate == Validate

SpecValidate == InitValidate /\ [][NextValidate]_vars

\* the value x of a field lies in its range r after validation as y: y is
\* in the range, the nearest bound when x is outside it, and x otherwise
Clamped(r, x, y) ==
    /\ y.t \in {"int", "float"}
    /\ Tenths(y) >= r.lo
    /\ Tenths(y) <= r.hi
    /\ Tenths(x) > r.hi => Tenths(y) = r.hi
    /\ Tenths(x) < r.lo => Tenths(y) = r.lo
    /\ (Tenths(x) >= r.lo /\ Tenths(x) <= r.hi) => Tenths(y) = Tenths(x)

\* C10: after validate_environmental_data, for every numeric input value
\* of the field, soil_ph lies in [4.0, 9.0], temperature in [-10, 50],
\* humidity in [0, 100], aqi in [0, 500] and aqi_rating in [1, 5]; a value
\* outside its range is replaced by the nearest bound (soil_ph 11.0 becomes
\* 9.0) and a value inside its range is unchanged.
C10_FieldsClamped ==
    call = "validate_environmental_data" =>
        \A field \in DOMAIN Ranges :
            Has(arg, field) =>
                /\ Has(ret, field)
                /\ Clamped(Ranges[field], arg.v[field], ret.v[field])

(***************************************************************************)
(* The environmental data normalizer: format_data_for_ai and               *)
(* enhance_with_user_preferences of src/src/utils/data_processor.py, and   *)
(* the override step of src/src/app.py                                     *)
(***************************************************************************)
\* an int, a float or a bool: what Python orders against a number
IsNumber(x) == x.t \in {"int", "float", "bool"}

\* the value of a number in thousandths
Milli(x) ==
    CASE x.t = "int" -> x.v * 1000
      [] x.t = "bool" -> IF x.v THEN 1000 ELSE 0
      [] x.t = "float" /\ Ch(x.v, 0) = "-" -> 0 - Thousandths(From(x.v, 1))
      [] OTHER -> Thousandths(x.v)

\* repr of the float n / 100
HundredthsText(n) ==
    IntText(n \div 100) \o "."
        \o (IF n % 10 = 0 THEN IntText((n % 100) \div 10)
            ELSE IntText((n % 100) \div 10) \o IntText(n % 10))

\* get_space_type_suggestions(location_type) for a str
space_category_of(location_lower) ==
    IF \E word \in {"window", "pane", "sill", "indoor"} : Contains(location_lower, word)
    THEN "indoor_small"
    ELSE IF \E word \in {"balcony", "terrace", "patio", "veranda"} :
                Contains(location_lower, word)
    THEN "semi_outdoor_medium"
    ELSE IF \E word \in {"backyard", "garden", "yard", "compound"} :
                Contains(location_lower, word)
    THEN "outdoor_medium"
    ELSE IF \E word \in {"farmland", "field", "farm", "acre", "hectare"} :
                Contains(location_lower, word)
    THEN "outdoor_large"
    ELSE "general"

suggestions_of(category) ==
    CASE category = "indoor_small" ->
            Dict([max_height |-> Str("0.5 meters"),
                  container_suitable |-> Bool(TRUE),
                  space_category |-> Str("indoor_small"),
                  plant_types |-> List(<<Str("Small herbs"), Str("Succulents"),
                                         Str("Small flowering plants")>>),
                  special_notes |-> List(<<Str("Ensure adequate sunlight"),
                                           Str("Use good quality potting soil")>>)])
      [] category = "semi_outdoor_medium" ->
            Dict([max_height |-> Str("2 meters"),
                  container_suitable |-> Bool(TRUE),
                  space_category |-> Str("semi_outdoor_medium"),
                  plant_types |-> List(<<Str("Medium shrubs"), Str("Dwarf fruit trees"),
                                         Str("Flowering plants")>>),
                  special_notes |-> List(<<Str("Consider wind exposure"),
                                           Str("Ensure proper drainage in pots")>>)])
      [] category = "outdoor_medium" ->
            Dict([max_height |-> Str("5 meters"),
                  container_suitable |-> Bool(FALSE),
                  space_category |-> Str("outdoor_medium"),
                  plant_types |-> List(<<Str("Medium trees"), Str("Large shrubs"),
                                         Str("Fruit trees")>>),
                  special_notes |-> List(<<Str("Direct ground planting recommended"),
                                           Str("Consider mature size")>>)])
      [] category = "outdoor_large" ->
            Dict([max_height |-> Str("15 meters"),
                  container_suitable |-> Bool(FALSE),
                  space_category |-> Str("outdoor_large"),
                  plant_types |-> List(<<Str("Large trees"), Str("Commercial crops"),
                                         Str("Timber trees")>>),
                  special_notes |-> List(<<Str("Commercial/large-scale planting suitable"),
                                           Str("Consider spacing for machinery access")>>)])
      [] OTHER ->
            Dict([max_height |-> Str("10 meters"),
                  container_suitable |-> Bool(TRUE),
                  space_category |-> Str("general"),
                  plant_types |-> List(<<Str("Any suitable plants")>>),
                  special_notes |-> List(<<>>)])

get_space_type_suggestions(location_type) ==
    IF ~Truthy(location_type) THEN EmptyDict
    ELSE IF ~IsStr(location_type) THEN Raised
    ELSE suggestions_of(space_category_of(Strip(Lower(location_type.v))))

\* water_mapping.get(water_pref, 1000) of enhance_with_user_preferences
user_rainfall_of(water_pref) ==
    CASE water_pref = Str("Low") -> 400
      [] water_pref = Str("Medium") -> 1000
      [] water_pref = Str("High") -> 1800
      [] OTHER -> 1000

\* the state of enhance_with_user_preferences between its steps:
\* formatted_data and user_overrides, or Raised
Enhancing(data, overrides) == [t |-> "enhancing", data |-> data, overrides |-> overrides]

\* formatted_data.get('api_data', {}).get(key, default): Raised when
\* api_data is no dict
api_data_get(formatted_data, key, default) ==
    IF ~IsDict(Get(formatted_data, "api_data", EmptyDict)) THEN Raised
    ELSE Get(Get(formatted_data, "api_data", EmptyDict), key, default)

\* the soil type override (data_processor.py:59-66) for a truthy stripped
\* text user_soil
soil_overridden(st, user_soil, api_soil) ==
    IF IsRaised(api_soil) THEN Raised
    ELSE Enhancing(
            Put(Put(Put(st.data, "soil_texture", Str(user_soil)),
                    "soil_texture_source", Str("user_input")),
                "soil_texture_note",
                Str("User specified: " \o user_soil \o " (API suggested: "
                    \o Format(api_soil) \o ")")),
            Append(st.overrides, "Soil: " \o user_soil))

prefer_soil(st, soil_type_input) ==
    IF IsRaised(st) \/ ~IsStr(soil_type_input) THEN Raised
    ELSE IF Strip(soil_type_input.v) = "" THEN st
    ELSE soil_overridden(st, Strip(soil_type_input.v),
                         api_data_get(st.data, "soil_texture_api", Str("clay loam")))

\* the condition of the rainfall override (data_processor.py:83)
rainfall_unrealistic(api_rainfall, user_rainfall) ==
    \/ Milli(api_rainfall) < 100 * 1000
    \/ Milli(api_rainfall) > 4000 * 1000
    \/ Milli(api_rainfall) - user_rainfall * 1000 > 800 * 1000
    \/ user_rainfall * 1000 - Milli(api_rainfall) > 800 * 1000

\* the water availability override (data_processor.py:70-92) for a
\* preference other than Auto-detect
water_overridden(st, water_pref, api_rainfall, user_rainfall) ==
    IF IsRaised(api_rainfall) \/ ~IsNumber(api_rainfall) THEN Raised
    ELSE IF rainfall_unrealistic(api_rainfall, user_rainfall) THEN
        Enhancing(
            Put(Put(Put(st.data, "rainfall", PyInt(user_rainfall)),
                    "rainfall_source", Str("user_preference")),
                "rainfall_note",
                Str("Using user preference (" \o Format(water_pref) \o ": "
                    \o IntText(user_rainfall) \o "mm) - API value ("
                    \o Format(api_rainfall)
                    \o "mm) seemed unrealistic or very different")),
            Append(st.overrides,
                   "Water: " \o Format(water_pref) \o " (" \o IntText(user_rainfall) \o "mm)"))
    ELSE
        Enhancing(
            Put(Put(Put(st.data, "user_water_preference", water_pref),
                    "user_preferred_rainfall", PyInt(user_rainfall)),
                "rainfall_note",
                Str("Using API data (" \o Format(api_rainfall) \o "mm) as it aligns with "
                    \o Format(water_pref) \o " conditions")),
            st.overrides)

prefer_water(st, water_availability) ==
    IF IsRaised(st) THEN Raised
    ELSE IF water_availability = Str("Auto-detect") THEN st
    ELSE water_overridden(st, water_availability,
                          api_data_get(st.data, "rainfall_api", PyInt(1000)),
                          user_rainfall_of(water_availability))

\* the space constraint (data_processor.py:95-98)
prefer_space(st, space_availability) ==
    IF IsRaised(st) \/ ~IsNumber(space_availability) THEN Raised
    ELSE IF Milli(space_availability) <= 0 THEN st
    ELSE Enhancing(
            Put(Put(st.data, "available_space", space_availability),
                "space_source", Str("user_input")),
            Append(st.overrides, "Space: " \o Format(space_availability) \o " m²"))

\* the area with units (data_processor.py:101-107) for the text given and
\* its area in hundredths of a square metre; the float is carried to two
\* decimals
area_converted(st, area_with_units, converted_area) ==
    IF converted_area <= 0 THEN st
    ELSE Enhancing(
            Put(Put(Put(st.data, "available_space", PyFloat(HundredthsText(converted_area))),
                    "space_source", Str("user_input_converted")),
                "area_conversion",
                Str(area_with_units \o " → " \o HundredthsText(converted_area) \o " m²")),
            Append(st.overrides,
                   "Space: " \o area_with_units \o " (" \o HundredthsText(converted_area)
                       \o " m²)"))

prefer_area(st, area_with_units) ==
    IF IsRaised(st) \/ ~IsStr(area_with_units) THEN Raised
    ELSE IF Strip(area_with_units.v) = "" THEN st
    ELSE area_converted(st, area_with_units.v, convert_area_to_square_meters(area_with_units))

\* the location type constraints (data_processor.py:110-122) for a truthy
\* stripped text
location_constrained(st, location_type, space_suggestions) ==
    Enhancing(
        Put(Put(Put(Put(Put(st.data, "space_location_type", Str(location_type)),
                        "location_constraints", space_suggestions),
                    "max_plant_height", Get(space_suggestions, "max_height", Str("10 meters"))),
                "container_suitable", Get(space_suggestions, "container_suitable", Bool(TRUE))),
            "space_category", Get(space_suggestions, "space_category", Str("general"))),
        Append(st.overrides, "Location: " \o location_type))

prefer_location(st, space_location_type) ==
    IF IsRaised(st) \/ ~IsStr(space_location_type) THEN Raised
    ELSE IF Strip(space_location_type.v) = "" THEN st
    ELSE location_constrained(st, Strip(space_location_type.v),
                              get_space_type_suggestions(Str(Strip(space_location_type.v))))

\* the budget preference (data_processor.py:125-127)
prefer_budget(st, budget_preference) ==
    IF IsRaised(st) THEN Raised
    ELSE IF budget_preference = Str("Auto-suggest") THEN st
    ELSE Enhancing(Put(st.data, "budget_preference", budget_preference),
                   Append(st.overrides, "Budget: " \o Format(budget_preference)))

\* ' | '.join(parts)
RECURSIVE JoinBar(_)
JoinBar(parts) ==
    IF Len(parts) = 0 THEN ""
    ELSE IF Len(parts) = 1 THEN parts[1]
    ELSE parts[1] \o " | " \o JoinBar(Tail(parts))

\* the summary of the overrides (data_processor.py:130-134)
customized(st) ==
    IF IsRaised(st) THEN Raised
    ELSE IF Len(st.overrides) = 0 THEN st.data
    ELSE Put(Put(st.data, "user_customizations",
                 List([i \in 1..Len(st.overrides) |-> Str(st.overrides[i])])),
             "customization_summary", Str("User preferences: " \o JoinBar(st.overrides)))

\* enhance_with_user_preferences(formatted_data, user_preferences):
\* formatted_data as the call leaves it, Raised when it raises
enhance_with_user_preferences(formatted_data, user_preferences) ==
    IF ~IsDict(user_preferences) \/ ~IsDict(formatted_data) THEN Raised
    ELSE customized(
            prefer_budget(
                prefer_location(
                    prefer_area(
                        prefer_space(
                            prefer_water(
                                prefer_soil(Enhancing(formatted_data, <<>>),
                                            Get(user_preferences, "soil_type_input", Str(""))),
                                Get(user_preferences, "water_availability", Str("Auto-detect"))),
                            Get(user_preferences, "space_availability", PyInt(0))),
                        Get(user_preferences, "area_with_units", Str(""))),
                    Get(user_preferences, "space_location_type", Str(""))),
                Get(user_preferences, "budget_preference", Str("Auto-suggest"))))

\* the dict format_data_for_ai builds from its three sources
formatted(soil_data, weather_data, air_quality_data, prefer_native) ==
    Dict([location |-> Get(weather_data, "location", Str("India")),
          soil_ph |-> Get(soil_data, "soil_ph", PyFloat("6.5")),
          soil_texture |-> Get(soil_data, "soil_texture", Str("clay loam")),
          soil_organic_carbon |-> Get(soil_data, "soil_organic_carbon", PyFloat("1.8")),
          temperature |-> Get(weather_data, "temperature", PyFloat("27.5")),
          humidity |-> Get(weather_data, "humidity", PyInt(65)),
          rainfall |-> Get(weather_data, "rainfall", PyInt(1000)),
          climate_type |-> Get(weather_data, "climate_type", Str("tropical")),
          aqi |-> Get(air_quality_data, "aqi", PyInt(75)),
          aqi_rating |-> Get(air_quality_data, "aqi_rating", PyInt(3)),
          pm2_5 |-> Get(air_quality_data, "pm2_5", PyInt(35)),
          prefer_native |-> prefer_native,
          data_status |-> Dict([
              soil |-> Get(soil_data, "status", Str("unknown")),
              weather |-> Get(weather_data, "status", Str("unknown")),
              air_quality |-> Get(air_quality_data, "status", Str("unknown"))]),
          api_data |-> Dict([
              soil_texture_api |-> Get(soil_data, "texture", Str("clay loam")),
              rainfall_api |-> Get(weather_data, "rainfall", PyInt(1000)),
              temperature_api |-> Get(weather_data, "temperature", PyFloat("27.5"))])])

\* format_data_for_ai(soil_data, weather_data, air_quality_data,
\* prefer_native, user_preferences): Raised when it raises
format_data_for_ai(soil_data, weather_data, air_quality_data, prefer_native, user_preferences) ==
    IF ~IsDict(soil_data) \/ ~IsDict(weather_data) \/ ~IsDict(air_quality_data) THEN Raised
    ELSE IF Truthy(user_preferences)
    THEN enhance_with_user_preferences(
             formatted(soil_data, weather_data, air_quality_data, prefer_native),
             user_preferences)
    ELSE formatted(soil_data, weather_data, air_quality_data, prefer_native)

\* water_mapping.get(preference) of the override step of the app: None for
\* a preference the mapping does not hold
app_water_value(water_pref) ==
    CASE water_pref = Str("Low") -> PyInt(400)
      [] water_pref = Str("Medium") -> PyInt(800)
      [] water_pref = Str("High") -> PyInt(1500)
      [] OTHER -> None

\* the water availability override of the app (app.py:364-378)
app_water_overridden(formatted_data, water_pref, current_rainfall, user_preference_value) ==
    IF ~Truthy(user_preference_value)
    THEN Put(Put(Put(formatted_data, "user_water_preference", water_pref),
                 "user_preferred_rainfall", user_preference_value),
             "rainfall_note",
             Str("Using calculated " \o Format(current_rainfall) \o "mm (user prefers "
                 \o Format(water_pref) \o " conditions)"))
    ELSE IF ~IsNumber(current_rainfall) THEN Raised
    ELSE IF Milli(current_rainfall) < 100 * 1000 \/ Milli(current_rainfall) > 5000 * 1000
    THEN Put(Put(Put(formatted_data, "rainfall", user_preference_value),
                 "user_water_preference", water_pref),
             "rainfall_override_reason",
             Str("Calculated value (" \o Format(current_rainfall)
                 \o "mm) seemed unrealistic, using user preference"))
    ELSE Put(Put(Put(formatted_data, "user_water_preference", water_pref),
                 "user_preferred_rainfall", user_preference_value),
             "rainfall_note",
             Str("Using calculated " \o Format(current_rainfall) \o "mm (user prefers "
                 \o Format(water_pref) \o " conditions)"))

app_water(formatted_data, user_preferences) ==
    IF IsRaised(formatted_data) THEN Raised
    ELSE IF Get(user_preferences, "water_availability", Str("Auto-detect")) = Str("Auto-detect")
    THEN formatted_data
    ELSE app_water_overridden(formatted_data, user_preferences.v["water_availability"],
                              Get(formatted_data, "rainfall", PyInt(1000)),
                              app_water_value(user_preferences.v["water_availability"]))

\* the soil type override of the app (app.py:381-383)
app_soil(formatted_data, soil_type_input) ==
    IF IsRaised(formatted_data) \/ ~IsStr(soil_type_input) THEN Raised
    ELSE IF Strip(soil_type_input.v) = "" THEN formatted_data
    ELSE Put(Put(formatted_data, "soil_texture", Str(Strip(soil_type_input.v))),
             "user_soil_input", Bool(TRUE))

\* the space the app settles on (app.py:386-397), for the area the text
\* converts to in hundredths of a square metre (0 for an empty text)
app_space_settled(formatted_data, space_availability, area_with_units, converted_area) ==
    IF converted_area > 0
    THEN Put(Put(formatted_data, "area_converted_from", area_with_units),
             "available_space", PyFloat(HundredthsText(converted_area)))
    ELSE IF ~IsNumber(space_availability) THEN Raised
    ELSE IF Milli(space_availability) > 0
    THEN Put(formatted_data, "available_space", space_availability)
    ELSE formatted_data

app_space(formatted_data, space_availability, area_with_units) ==
    IF IsRaised(formatted_data) \/ ~IsStr(area_with_units) THEN Raised
    ELSE app_space_settled(formatted_data, space_availability, area_with_units,
                           IF Strip(area_with_units.v) = "" THEN 0
                           ELSE convert_area_to_square_meters(area_with_units))

\* the constraints the app derives from the location type (app.py:404-424)
app_space_constraints(location_type) ==
    IF \E word \in {"window", "pane", "sill"} : Contains(location_type, word)
    THEN "indoor_small"
    ELSE IF \E word \in {"balcony", "terrace", "patio"} : Contains(location_type, word)
    THEN "semi_outdoor_medium"
    ELSE IF \E word \in {"backyard", "garden", "yard"} : Contains(location_type, word)
    THEN "outdoor_medium"
    ELSE IF \E word \in {"farmland", "field", "farm", "acre", "hectare"} :
                Contains(location_type, word)
    THEN "outdoor_large"
    ELSE "general"

app_constrained(formatted_data, constraints) ==
    IF constraints = "general"
    THEN Put(Put(formatted_data, "space_constraints", Str("general")),
             "container_suitable", Bool(TRUE))
    ELSE Put(Put(Put(formatted_data, "space_constraints", Str(constraints)),
                 "max_plant_height", suggestions_of(constraints).v["max_height"]),
             "container_suitable", suggestions_of(constraints).v["container_suitable"])

app_location(formatted_data, space_location_type) ==
    IF IsRaised(formatted_data) \/ ~IsStr(space_location_type) THEN Raised
    ELSE IF Strip(space_location_type.v) = "" THEN formatted_data
    ELSE app_constrained(
            Put(formatted_data, "space_location_type", Str(Strip(space_location_type.v))),
            app_space_constraints(Strip(Lower(space_location_type.v))))

\* the budget preference of the app (app.py:427-428)
app_budget(formatted_data, budget_preference) ==
    IF IsRaised(formatted_data) THEN Raised
    ELSE IF budget_preference = Str("Auto-suggest") THEN formatted_data
    ELSE Put(formatted_data, "budget_preference", budget_preference)

\* formatted_data['user_preferences'] = user_preferences (app.py:431)
app_with_preferences(formatted_data, user_preferences) ==
    IF IsRaised(formatted_data) THEN Raised
    ELSE Put(formatted_data, "user_preferences", user_preferences)

\* formatted_data['goal_type'] = goal_type (app.py:359)
app_goal_type(formatted_data, goal_type) ==
    IF IsRaised(formatted_data) THEN Raised
    ELSE Put(formatted_data, "goal_type", goal_type)

\* `if user_preferences:` of the app (app.py:362-431): formatted_data as the
\* override step leaves it, Raised when it raises
app_override(formatted_data, user_preferences) ==
    IF IsRaised(formatted_data) THEN Raised
    ELSE IF ~Truthy(user_preferences) THEN formatted_data
    ELSE IF ~IsDict(user_preferences) THEN Raised
    ELSE app_with_preferences(
            app_budget(
                app_location(
                    app_space(
                        app_soil(
                            app_water(formatted_data, user_preferences),
                            Get(user_preferences, "soil_type_input", Str(""))),
                        Get(user_preferences, "space_availability", PyInt(0)),
                        Get(user_preferences, "area_with_units", Str(""))),
                    Get(user_preferences, "space_location_type", Str(""))),
                Get(user_preferences, "budget_preference", Str("Auto-suggest"))),
            user_preferences)

\* what generate_recommendations_from_coords makes of the data it fetched
\* before it asks for recommendations (app.py:347-434): format_data_for_ai
\* is handed user_goal as prefer_native and prefer_native as
\* user_preferences; Raised when a step raises
app_formatted_data(soil_data, weather_data, air_quality_data, user_goal, goal_type, prefer_native, user_preferences) ==
    validate_environmental_data(
        app_override(
            app_goal_type(
                format_data_for_ai(soil_data, weather_data, air_quality_data,
                                   user_goal, prefer_native),
                goal_type),
            user_preferences))

(***************************************************************************)
(* The normalizer applied to fetched data and user preferences             *)
(***************************************************************************)
\* rainfall readings of the weather source: none, null, no number, and
\* numbers around the limits of the override rule
RainfallReadings ==
    {Absent, None, Str("abc"), PyInt(50), PyInt(99), PyInt(100), PyInt(150), PyInt(1200),
     PyInt(1201), PyInt(1300), PyInt(1900), PyInt(4000), PyInt(4001), PyFloat("4500.5"),
     PyInt(5001)}

SoilReadings == {Absent, Str("acidic"), PyFloat("5.5"), PyFloat("9.5")}

WaterPreferences == {Absent, Str("Auto-detect"), Str("Low"), Str("Medium"), Str("High")}

\* the other preferences of the form: none, a null entry, all given
OtherPreferences ==
    {EmptyDict,
     Dict([soil_type_input |-> None]),
     Dict([space_availability |-> None]),
     Dict([soil_type_input |-> Str(" red loam "), space_availability |-> PyInt(12),
           area_with_units |-> Str("100 sq m"), space_location_type |-> Str("Balcony"),
           budget_preference |-> Str("Low")])}

UserPreferences ==
    {None} \cup {PutField(other, "water_availability", water) :
                    other \in OtherPreferences, water \in WaterPreferences}

\* the arguments of one run: what the three sources returned, the flag and
\* the preferences of the session
FetchedData ==
    {[soil_data |-> PutField(Dict([texture |-> Str("sandy"), status |-> Str("success")]),
                             "soil_ph", soil_ph),
      weather_data |-> PutField(Dict([location |-> Str("Pune"), humidity |-> PyInt(120)]),
                                "rainfall", rainfall),
      air_quality_data |-> Dict([aqi |-> PyInt(620)]),
      prefer_native |-> Bool(prefer_native),
      user_preferences |-> user_preferences] :
        soil_ph \in SoilReadings, rainfall \in RainfallReadings,
        prefer_native \in BOOLEAN, user_preferences \in UserPreferences}

InitPreferences ==
    /\ call = "none"
    /\ arg \in FetchedData
    /\ ret = None
    /\ aux = None

\* format_data_for_ai called with the preferences (data_processor.py:1-48)
FormatData ==
    /\ call = "none"
    /\ call' = "format_data_for_ai"
    /\ ret' = format_data_for_ai(arg.soil_data, arg.weather_data, arg.air_quality_data,
                                 arg.prefer_native, arg.user_preferences)
    /\ UNCHANGED <<arg, aux>>

\* validate_environmental_data called with the profile that was returned
ValidateFormatted ==
    /\ call = "format_data_for_ai"
    /\ IsDict(ret)
    /\ call' = "validate_environmental_data"
    /\ aux' = ret
    /\ ret' = validate_environmental_data(ret)
    /\ UNCHANGED arg

\* the data preparation of generate_recommendations_from_coords
\* (app.py:347-434)
PrepareInApp ==
    /\ call = "none"
    /\ call' = "generate_recommendations_from_coords"
    /\ ret' = app_formatted_data(arg.soil_data, arg.weather_data, arg.air_quality_data,
                                 Str("Air purification"), Str("environmental"),
                                 arg.prefer_native,
                                 IF arg.user_preferences = None THEN EmptyDict
                                 ELSE arg.user_preferences)
    /\ UNCHANGED <<arg, aux>>

NextPreferences == FormatData \/ ValidateFormatted \/ PrepareInApp

SpecPreferences == InitPreferences /\ [][NextPreferences]_vars

\* the preference was applied to the run: one of the two places has
\* returned a profile
PreferenceApplied ==
    /\ call \in {"format_data_for_ai", "generate_recommendations_from_coords"}
    /\ IsDict(ret)
    /\ IsDict(arg.user_preferences)

\* the rainfall the API gave, 1000 when it gave none
ApiRainfall == Get(arg.weather_data, "rainfall", PyInt(1000))

\* the rainfall a preference maps to according to the rule
MappedRainfall(water) ==
    CASE water = Str("Low") -> 400
      [] water = Str("Medium") -> 1000
      [] water = Str("High") -> 1800

\* the profile records a note on the rainfall it carries
OverrideNoted(profile) == Has(profile, "rainfall_note") \/ Has(profile, "rainfall_override_reason")

\* the rule for a preference and an API rainfall in thousandths
WaterRule(profile, water, api) ==
    IF api < 100000 \/ api > 4000000
       \/ api - MappedRainfall(water) * 1000 > 800000
       \/ MappedRainfall(water) * 1000 - api > 800000
    THEN /\ Get(profile, "rainfall", None) = PyInt(MappedRainfall(water))
         /\ OverrideNoted(profile)
    ELSE /\ Get(profile, "rainfall", None) = ApiRainfall
         /\ Get(profile, "user_water_preference", None) = water

\* C11: wherever a water preference Low/Medium/High is applied to a numeric
\* API rainfall (format_data_for_ai through enhance_with_user_preferences,
\* and the override step of the app), the profile's rainfall is the mapped
\* value 400/1000/1800 with a note recorded exactly when the API rainfall is
\* below 100, above 4000 or more than 800 away from the mapped value, and
\* otherwise the API rainfall with user_water_preference attached; Low with
\* an API rainfall of 50 gives 400 with a note.
C11_WaterPreferenceRule ==
    (/\ PreferenceApplied
     /\ Get(arg.user_preferences, "water_availability", None)
            \in {Str("Low"), Str("Medium"), Str("High")}
     /\ IsNumber(ApiRainfall))
        => WaterRule(ret, arg.user_preferences.v["water_availability"], Milli(ApiRainfall))

\* the same rule at enhance_with_user_preferences alone
C11_RuleInNormalizer == call = "format_data_for_ai" => C11_WaterPreferenceRule

\* the fields of the profile with the default format_data_for_ai gives them
\* and the source they are read from
ProfileDefaults ==
    [soil_ph |-> [source |-> "soil_data", default |-> PyFloat("6.5")],
     rainfall |-> [source |-> "weather_data", default |-> PyInt(1000)],
     temperature |-> [source |-> "weather_data", default |-> PyFloat("27.5")]]

\* the reading of a field in its source is missing, null or no number
Unusable(field) ==
    ~IsNumber(Get(arg[ProfileDefaults[field].source], field, None))

\* C12: format_data_for_ai, enhance_with_user_preferences and
\* validate_environmental_data never raise: for source mappings and
\* preferences whose optional fields are missing, null or of another type
\* they return a profile, and a field whose reading is missing, null or no
\* number holds its default.
C12_NeverRaises ==
    call \in {"format_data_for_ai", "validate_environmental_data"} =>
        /\ IsDict(ret)
        /\ \A field \in DOMAIN ProfileDefaults :
                Unusable(field) => Get(ret, field, None) = ProfileDefaults[field].default

(***************************************************************************)
(* The prompt of the local backend: create_concise_local_prompt of         *)
(* src/src/api/local_api.py.  In the texts a bullet is written * and the   *)
(* Devanagari sample name is written hi.                                   *)
(***************************************************************************)
\* the instructions table of get_goal_specific_instructions
goal_instructions_table(region) ==
    [cash_crops |->
       "\nFor CASH CROPS in "
    \o region \o " focus on:\n* High-value commercial crops with strong regional market demand\n* Fast-growing varieties with multiple harvests per year  \n* Crops with export potential and value-added processing opportunities\n* Regional specialties like spices, medicinal plants, and cash crops\n* Consider storage life, transportation, and local market infrastructure\n* Emphasize crops with established supply chains and steady pricing\n* Focus on water-efficient and climate-resilient varieties\n        ",
     food_crops |->
       "\nFor FOOD CROPS in "
    \o region \o " focus on:\n* Nutritious staples, vegetables, and fruits for household food security\n* Kitchen garden suitable crops for year-round home consumption\n* High-yield, nutrient-dense varieties adapted to local conditions\n* Traditional crops with cultural significance in "
    \o region \o "\n* Seasonal rotation for continuous food production\n* Protein-rich legumes and vitamin-rich vegetables\n* Drought-tolerant and disease-resistant varieties\n        ",
     afforestation |->
       "\nFor AFFORESTATION in "
    \o region \o " focus on:\n* Fast-growing native trees for rapid environmental restoration\n* Species with excellent air purification and oxygen production\n* Trees providing shade, erosion control, and biodiversity support\n* Urban-suitable species with pollution tolerance\n* Multi-purpose trees (timber, fruit, medicinal, fodder)\n* Carbon sequestration potential and climate adaptation\n* Traditional agroforestry species integrated with farming\n        "]

\* get_goal_specific_instructions(goal_type, region) for a goal_type that
\* can be a key of the table
get_goal_specific_instructions(goal_type, region) ==
    IF IsStr(goal_type) /\ goal_type.v \in DOMAIN goal_instructions_table(region)
    THEN goal_instructions_table(region)[goal_type.v]
    ELSE goal_instructions_table(region).afforestation

\* the text of the prompt after the preferences: the guidelines and the
\* JSON format asked for (local_api.py:309-372)
prompt_guidelines ==
    "\n\n"
    \o "WATER AMOUNT GUIDELINES (use specific amounts):\n- Large Trees: 80-200L/week mature, 20-50L/week seedling\n- Medium Trees: 30-80L/week mature, 10-25L/week seedling\n- Small Trees/Shrubs: 15-40L/week mature, 5-15L/week seedling\n- Crops: 3-15L/week per plant depending on crop type\n- Herbs/Small plants: 1-5L/week per plant\n- Potted plants: 0.5-3L/day per plant\n\n"
    \o "SUNLIGHT GUIDELINES (use specific hours):\n- Full sun: 6-8 hours daily\n- Partial sun: 4-6 hours daily\n- Partial shade: 2-4 hours daily\n- Full shade: <2 hours daily\n\n"
    \o "SEASONAL SUITABILITY & PLANTING WINDOW (CRITICAL):\n- For every recommended species include a \"planting_window\" object with:\n    - \"best_months\": a list of month names (e.g. [\"June\",\"July\"]) representing the optimal planting window for the specified location/region.\n    - \"can_plant_now\": true/false (boolean). If false, add a one-sentence \"planting_window_justification\" explaining why it's not recommended now and what climate/soil/season constraint prevents planting now.\n    - If \"can_plant_now\" is false, include a short \"planting_mitigation_steps\" string that explains how to successfully establish the plant off-window (for example: use seedlings, shade nets, staggered watering, raised beds, or suggest the next best months to plant).\n\n"
    \o "Provide exactly 5 plant recommendations in this JSON format (do not include any extra text):\n[\n    {\n        \"common_name\": \"Plant Name\",\n        \"local_name\": \"hi hi (Local Name)\",\n        \"scientific_name\": \"Scientific name\",\n        \"plant_type\": \"Tree/Shrub/Crop/Herb/Potted\",\n        \"family\": \"Plant family\",\n        \"mature_height\": \"X-Y meters\",\n        \"spacing\": \"X meters apart\",\n\n"
    \o "        \"water_needs\": {\n            \"seedling\": \"X liters per week for first 6 months (numeric liters)\",\n            \"mature\": \"X liters per week when fully grown (numeric liters)\", \n            \"dry_season\": \"X liters per week during summer (numeric liters)\",\n            \"monsoon\": \"X liters per week during rains (numeric liters)\"\n        },\n\n"
    \o "        \"sunlight\": {\n            \"daily_hours\": \"X-Y hours direct sunlight (numeric hours)\",\n            \"type\": \"Full sun/Partial sun/Partial shade/Full shade\",\n            \"best_direction\": \"South/East/West facing recommended\"\n        },\n\n"
    \o "        \"planting_window\": {\n            \"best_months\": [\"Month1\",\"Month2\"],\n            \"can_plant_now\": true,\n            \"planting_window_justification\": \"One-sentence explanation (why/why not)\",\n            \"planting_mitigation_steps\": \"If off-window, short steps to mitigate or next best window\"\n        },\n\n"
    \o "        \"care_level\": \"Easy/Medium/Hard\",\n        \"growth_rate\": \"Fast/Medium/Slow (X cm/month)\",\n        \"benefits\": [\"air purification\", \"carbon absorption\", \"oxygen production\"],\n        \"initial_cost\": \"₹X-Y per plant\",\n        \"suitability_score\": 8.5\n    }\n]\n\n"
    \o "CRITICAL: Use EXACT numeric amounts in liters and hours (e.g., \"25 liters per week\", \"6-8 hours\"), and match the amounts to the plant_type (trees need much higher volumes than potted herbs). Do not use vague descriptors. Ensure the \"planting_window\" is accurate for India at the provided coordinates. Respond with valid JSON only."

\* f"{x:.2f}" of a number: two decimals, rounded to the nearest (numbers
\* half way between two texts are left out of the inputs); Raised for a
\* value the format does not accept
Fixed2Text(n) ==
    IntText(n \div 100) \o "." \o IntText((n % 100) \div 10) \o IntText(n % 10)

Fixed2(x) ==
    IF ~IsNumber(x) THEN Raised
    ELSE IF Milli(x) < 0 THEN Str("-" \o Fixed2Text((5 - Milli(x)) \div 10))
    ELSE Str(Fixed2Text((Milli(x) + 5) \div 10))

\* env_summary (local_api.py:273-278) for the two coordinates as texts
env_summary(data, lat, lon) ==
    "Location: " \o Format(Get(data, "location", Str("India")))
        \o " (" \o lat \o ", " \o lon \o ")\n"
        \o "Temperature: " \o Format(Get(data, "temperature", PyInt(25))) \o "°C\n"
        \o "Rainfall: " \o Format(Get(data, "rainfall", PyInt(1000))) \o "mm/year\n"
        \o "Soil pH: " \o Format(Get(data, "soil_ph", PyFloat("6.5"))) \o "\n"
        \o "Humidity: " \o Format(Get(data, "humidity", PyInt(65))) \o "%\n"
        \o "Air Quality: " \o Format(Get(data, "aqi", PyInt(106))) \o " AQI"

\* native_text (local_api.py:281)
native_text(prefer_native) ==
    IF Truthy(prefer_native) THEN "Focus on NATIVE Indian plants"
    ELSE "Include both native and adapted plants"

\* the constraint added for a location type (local_api.py:294-299)
location_constraint(location_lower) ==
    IF Contains(location_lower, "window") \/ Contains(location_lower, "balcony")
    THEN " (Container plants only, max 2m height)"
    ELSE IF Contains(location_lower, "garden") \/ Contains(location_lower, "yard")
    THEN " (Ground planting possible, trees up to 5m)"
    ELSE IF Contains(location_lower, "farm")
    THEN " (Large scale planting, any size trees)"
    ELSE ""

\* pref_text before the location type (local_api.py:285-289)
pref_text_of(user_prefs) ==
    (IF Truthy(Get(user_prefs, "water_availability", None))
        /\ user_prefs.v["water_availability"] # Str("Auto-detect")
     THEN "\nWater Constraint: " \o Format(user_prefs.v["water_availability"])
     ELSE "")
    \o (IF Truthy(Get(user_prefs, "space_availability", None))
        THEN "\nSpace Available: " \o Format(user_prefs.v["space_availability"])
                 \o " sq meters"
        ELSE "")

\* the prompt text (local_api.py:302-372), assigned inside the block of
\* `if user_prefs.get('space_location_type'):`
prompt_text(data, prefer_native, goal_type, lat, lon, user_prefs, location_type) ==
    Str("TASK: Recommend exactly 5 plants for " \o Format(goal_type) \o " in India.\n\n"
        \o "LOCATION DATA:\n" \o env_summary(data, lat, lon) \o "\n\n"
        \o "REQUIREMENTS:\n- " \o native_text(prefer_native) \o "\n- "
        \o Slice(Strip(get_goal_specific_instructions(goal_type, "India")), 0, 200) \o "\n"
        \o pref_text_of(user_prefs)
        \o "\nLocation Type: " \o location_type \o location_constraint(Lower(location_type))
        \o prompt_guidelines)

\* the body of create_concise_local_prompt once data and the coordinates
\* are read
concise_prompt(data, prefer_native, goal_type, lat, lon, user_prefs) ==
    IF IsRaised(lat) \/ IsRaised(lon) \/ ~IsDict(user_prefs) THEN Raised
    ELSE IF ~Truthy(Get(user_prefs, "space_location_type", None))
    THEN Raised   \* `return prompt`: prompt was never assigned
    ELSE IF ~IsStr(user_prefs.v["space_location_type"]) THEN Raised
    ELSE prompt_text(data, prefer_native, goal_type, lat.v, lon.v, user_prefs,
                     user_prefs.v["space_location_type"].v)

\* create_concise_local_prompt(data, user_goal, prefer_native, goal_type,
\* lat, lon): the prompt as a str, Raised when the call raises
create_concise_local_prompt(data, user_goal, prefer_native, goal_type, lat, lon) ==
    IF ~IsDict(data) \/ goal_type.t \in {"list", "dict"} THEN Raised
    ELSE concise_prompt(data, prefer_native, goal_type, Fixed2(lat), Fixed2(lon),
                        Get(data, "user_preferences", EmptyDict))

(***************************************************************************)
(* create_concise_local_prompt applied to a profile                        *)
(***************************************************************************)
\* the preferences a profile carries: none, or each optional preference
\* given or not
PromptPreferences ==
    {Absent} \cup
    {PutField(PutField(PutField(EmptyDict,
         "water_availability", water), "space_availability", space),
         "space_location_type", location) :
        water \in {Absent, Str("Auto-detect"), Str("Low")},
        space \in {Absent, PyInt(12)},
        location \in {Absent, Str("Balcony"), Str("Backyard garden"), Str("farm"),
                      Str("rooftop")}}

PromptProfiles ==
    {PutField(profile, "user_preferences", user_preferences) :
        profile \in {EmptyDict,
                     Dict([location |-> Str("Pune"), temperature |-> PyFloat("31.5"),
                           rainfall |-> PyInt(1300), soil_ph |-> PyFloat("5.5"),
                           humidity |-> PyInt(70), aqi |-> PyInt(150)])},
        user_preferences \in PromptPreferences}

PromptArguments ==
    {[data |-> data, prefer_native |-> Bool(prefer_native), goal_type |-> Str(goal_type),
      lat |-> PyFloat("20.5937"), lon |-> PyFloat("78.9629")] :
        data \in PromptProfiles, prefer_native \in BOOLEAN,
        goal_type \in {"afforestation", "cash_crops", "food_crops"}}

InitPrompt ==
    /\ call = "none"
    /\ arg \in PromptArguments
    /\ ret = None
    /\ aux = None

\* local_api.py:112 get_recommendations -> create_concise_local_prompt
CreatePrompt ==
    /\ call = "none"
    /\ call' = "create_concise_local_prompt"
    /\ ret' = create_concise_local_prompt(arg.data, Str("user goal"), arg.prefer_native,
                                          arg.goal_type, arg.lat, arg.lon)
    /\ UNCHANGED <<arg, aux>>

NextPrompt == CreatePrompt

SpecPrompt == InitPrompt /\ [][NextPrompt]_vars

\* C17: create_concise_local_prompt returns a prompt, a str, for every
\* profile, goal type and native flag and for every combination of present
\* and absent optional preferences (water availability, space availability,
\* location type), the profile with no user_preferences included; it never
\* fails.
C17_PromptAlwaysBuilt ==
    call = "create_concise_local_prompt" => IsStr(ret) /\ Len(ret.v) > 0

\* with a location type among the preferences the prompt is built
C17_BuiltWithLocationType ==
    (/\ call = "create_concise_local_prompt"
     /\ Has(arg.data, "user_preferences")
     /\ Has(arg.data.v["user_preferences"], "space_location_type"))
        => IsStr(ret) /\ Len(ret.v) > 0

(***************************************************************************)
(* The prompt of the Gemini backend: create_enhanced_recommendation_prompt *)
(* of src/src/api/gemini_api.py.  The prompt is carried as the lines that  *)
(* depend on the arguments, in their order and without the pictographs     *)
(* that open them; the fixed guidance text between them is left out.       *)
(***************************************************************************)
\* region (gemini_api.py:149) for coordinates in thousandths of a degree
region_of(lat, lon) ==
    IF lat > 26000 THEN "North India"
    ELSE IF lat < 15000 THEN "South India"
    ELSE IF lon < 77000 THEN "West India"
    ELSE "East India"

\* current_season (gemini_api.py:153-159) for the month of the clock
current_season_of(current_month) ==
    IF current_month \in {11, 12, 1, 2, 3, 4} THEN "Rabi (Winter)"
    ELSE IF current_month \in {6, 7, 8, 9, 10} THEN "Kharif (Monsoon)"
    ELSE "Zaid (Summer)"

\* s.upper()
UpperCh(c) ==
    IF c = "" \/ Find("abcdefghijklmnopqrstuvwxyz", c) = -1 THEN c
    ELSE Ch("ABCDEFGHIJKLMNOPQRSTUVWXYZ", Find("abcdefghijklmnopqrstuvwxyz", c))
RECURSIVE Upper(_)
Upper(s) ==
    IF Len(s) <= 1 THEN UpperCh(s)
    ELSE Upper(Slice(s, 0, Len(s) \div 2)) \o Upper(From(s, Len(s) \div 2))

\* f"{x:.4f}" of an int or of a float written with at most four decimals
Fixed4(x) ==
    IF ~IsNumber(x) THEN Raised
    ELSE IF x.t = "int" THEN Str(IntText(x.v) \o ".0000")
    ELSE IF x.t = "bool" THEN Str(IF x.v THEN "1.0000" ELSE "0.0000")
    ELSE Str(Slice(x.v \o "0000", 0, Find(x.v, ".") + 5))

\* the constraint line of a location type (gemini_api.py:184-192)
gemini_location_constraint(location_lower) ==
    IF \E word \in {"window", "pane", "sill"} : Contains(location_lower, word)
    THEN "\n   CONSTRAINT: Indoor/window location - recommend small potted plants, max height 0.5m, good for containers"
    ELSE IF \E word \in {"balcony", "terrace", "patio"} : Contains(location_lower, word)
    THEN "\n   CONSTRAINT: Semi-outdoor space - recommend medium-sized plants, max height 2m, container-friendly"
    ELSE IF \E word \in {"backyard", "garden", "yard"} : Contains(location_lower, word)
    THEN "\n   CONSTRAINT: Outdoor garden space - can recommend trees up to 5m, ground planting suitable"
    ELSE IF \E word \in {"farmland", "field", "farm", "acre", "hectare"} :
                Contains(location_lower, word)
    THEN "\n   CONSTRAINT: Large-scale farming area - can recommend large trees up to 15m, commercial cultivation suitable"
    ELSE ""

\* the values the preference section reads can be read: .strip() needs a
\* str, the comparison with 0 a number
preferences_readable(user_prefs) ==
    /\ IsDict(user_prefs)
    /\ IsStr(Get(user_prefs, "soil_type_input", Str("")))
    /\ IsNumber(Get(user_prefs, "space_availability", PyInt(0)))
    /\ IsStr(Get(user_prefs, "space_location_type", Str("")))

\* user_preferences_text (gemini_api.py:162-198) for readable preferences
user_preferences_text(user_prefs) ==
    IF ~Truthy(user_prefs) THEN ""
    ELSE "\nUSER-SPECIFIED PREFERENCES (PRIORITIZE THESE):"
        \o (IF Get(user_prefs, "water_availability", Str("Auto-detect")) # Str("Auto-detect")
            THEN "\nUser Water Availability: " \o Format(user_prefs.v["water_availability"])
                     \o " - PRIORITIZE plants suited for this water level"
            ELSE "")
        \o (IF Strip(Get(user_prefs, "soil_type_input", Str("")).v) # ""
            THEN "\nUser Soil Type: " \o user_prefs.v["soil_type_input"].v
                     \o " - PRIORITIZE plants that thrive in this specific soil"
            ELSE "")
        \o (IF Milli(Get(user_prefs, "space_availability", PyInt(0))) > 0
            THEN "\nAvailable Space: " \o Format(user_prefs.v["space_availability"])
                     \o " sq meters - RECOMMEND plants that fit within this space constraint"
            ELSE "")
        \o (IF Strip(Get(user_prefs, "space_location_type", Str("")).v) # ""
            THEN "\nPlanting Location: " \o user_prefs.v["space_location_type"].v
                     \o " - PRIORITIZE plants suitable for this specific location type"
                     \o gemini_location_constraint(Lower(user_prefs.v["space_location_type"].v))
            ELSE "")
        \o (IF Get(user_prefs, "budget_preference", Str("Auto-suggest")) # Str("Auto-suggest")
            THEN "\nBudget Preference: " \o Format(user_prefs.v["budget_preference"])
                     \o " - PRIORITIZE plants matching this budget range"
            ELSE "")
        \o "\n\nIMPORTANT: User-provided preferences should override API data where they conflict!"

\* the argument lines of the prompt (gemini_api.py:200-403)
enhanced_prompt_text(data, user_goal, prefer_native, goal_type, lat, lon, region, current_season, preferences_text) ==
    Str("LOCATION & ENVIRONMENTAL ANALYSIS FOR "
            \o Format(Get(data, "location", Str("India"))) \o ":\n"
        \o "Location: " \o Format(Get(data, "location", Str("India")))
            \o " (" \o region \o ")\n"
        \o "Coordinates: " \o lat \o ", " \o lon \o "\n"
        \o "Current Season: " \o current_season \o "\n"
        \o "Temperature: " \o Format(Get(data, "temperature", PyFloat("27.5"))) \o "°C\n"
        \o "Humidity: " \o Format(Get(data, "humidity", PyInt(65))) \o "%\n"
        \o "Annual Rainfall: " \o Format(Get(data, "rainfall", PyInt(1000))) \o "mm"
            \o (IF Truthy(Get(data, "user_water_preference", None))
                THEN " (User-adjusted)" ELSE "") \o "\n"
        \o "Soil pH: " \o Format(Get(data, "soil_ph", PyFloat("6.5"))) \o "\n"
        \o "Soil Texture: " \o Format(Get(data, "soil_texture", Str("clay loam")))
            \o (IF Truthy(Get(data, "user_soil_input", None))
                THEN " (User-specified)" ELSE "") \o "\n"
        \o "Soil Organic Carbon: "
            \o Format(Get(data, "soil_organic_carbon", PyFloat("1.8"))) \o "%\n"
        \o "Air Quality Index: " \o Format(Get(data, "aqi", PyInt(106)))
            \o " (" \o Format(Get(data, "aqi_rating", PyInt(3))) \o "/5 rating)\n"
        \o "PM2.5 Level: " \o Format(Get(data, "pm2_5", PyInt(35))) \o "\n"
        \o "Climate Type: " \o Format(Get(data, "climate_type", Str("tropical"))) \o "\n"
        \o (IF Truthy(Get(data, "available_space", None))
            THEN "Available Space: " \o Format(data.v["available_space"]) \o " sq meters"
            ELSE "") \o "\n"
        \o preferences_text \o "\n"
        \o "Goal: " \o Format(user_goal) \o "\n"
        \o "Prefer Native Species: " \o Format(prefer_native) \o "\n"
        \o "Goal Type: " \o Upper(goal_type.v) \o "\n"
        \o get_goal_specific_instructions(goal_type, region) \o "\n"
        \o "CURRENT SEASON: " \o current_season \o "\n"
        \o "Focus on plants suitable for " \o region \o " climate\n")

\* create_enhanced_recommendation_prompt(data, user_goal, prefer_native,
\* goal_type, lat, lon) in the month current_month: the prompt as a str,
\* Raised when the call raises
create_enhanced_recommendation_prompt(data, user_goal, prefer_native, goal_type, lat, lon, current_month) ==
    IF ~IsNumber(lat) \/ ~IsNumber(lon) \/ ~IsDict(data) \/ ~IsStr(goal_type) THEN Raised
    ELSE IF Truthy(Get(data, "user_preferences", EmptyDict))
            /\ ~preferences_readable(Get(data, "user_preferences", EmptyDict))
    THEN Raised
    ELSE enhanced_prompt_text(data, user_goal, prefer_native, goal_type,
                              Fixed4(lat).v, Fixed4(lon).v,
                              region_of(Milli(lat), Milli(lon)),
                              current_season_of(current_month),
                              user_preferences_text(Get(data, "user_preferences", EmptyDict)))

(***************************************************************************)
(* get_recommendations of the two backends: the retry loop around the      *)
(* request to the model                                                    *)
(***************************************************************************)
\* create_error_response(error_message) of the gemini backend
gemini_create_error_response(error_message) ==
    List(<<Dict([
          error |-> Bool(TRUE),
          message |-> Str(error_message),
          scientific_name |-> Str("Error"),
          common_name |-> Str("Unable to generate recommendations"),
          local_name |-> Str("hi hi hi hi hi (Please try again)"),
          plant_type |-> Str("Error"),
          family |-> Str("System Error"),
          suitability_score |-> Str("0/10"),
          suitability_analysis |-> Str("Error: " \o error_message),
          environmental_impact_score |-> PyInt(0),
          air_quality_benefits |-> Dict([
              pollution_reduction |-> Str("Not available"),
              co2_absorption |-> Str("0 kg/year"),
              oxygen_production |-> Str("0 kg/year"),
              aqi_improvement |-> Str("Not available")]),
          growth_characteristics |-> Dict([
              growth_rate |-> Str("Not applicable"),
              mature_height |-> Str("Not applicable"),
              spacing_requirements |-> Str("Not applicable")]),
          sustainability_highlights |-> List(<<Str("Please try again with different parameters")>>)])>>)

\* create_error_response(error_message) of the local backend
local_create_error_response(error_message) ==
    List(<<Dict([
          error |-> Bool(TRUE),
          message |-> Str(error_message),
          scientific_name |-> Str("Error"),
          common_name |-> Str("Unable to generate recommendations"),
          local_name |-> Str("hi hi hi hi hi (Please try again)"),
          plant_type |-> Str("Error"),
          family |-> Str("System Error"),
          suitability_score |-> Str("0/10"),
          suitability_analysis |-> Str("Error: " \o error_message),
          environmental_impact_score |-> PyInt(0),
          air_quality_benefits |-> Dict([
              pollution_reduction |-> Str("Not available"),
              co2_absorption |-> Str("0 kg/year"),
              oxygen_production |-> Str("0 kg/year"),
              aqi_improvement |-> Str("Not available")]),
          water_requirements |-> Dict([
              seedling_stage |-> Str("Not available - system error"),
              mature_plant |-> Str("Not available - system error"),
              dry_season_adjustment |-> Str("Not available"),
              monsoon_reduction |-> Str("Not available")]),
          sunlight_requirements |-> Dict([
              daily_hours_needed |-> Str("Not available"),
              light_intensity |-> Str("Not available"),
              optimal_direction |-> Str("Not available")]),
          growth_characteristics |-> Dict([
              growth_rate |-> Str("Not applicable"),
              mature_height |-> Str("Not applicable"),
              spacing_requirements |-> Str("Not applicable")]),
          sustainability_highlights |-> List(<<Str("Please try again with different parameters"), Str("Make sure LM Studio is running"), Str("Check if the model is loaded in LM Studio")>>)])>>)

\* max_retries of get_recommendations, the same in both backends
max_retries == 3

\* max_prompt_length of generate_chat_completion
max_prompt_length == 8000

MODEL_NAME == "llama-3.2-3b-crop-recommender"

\* an exception raised with the text str(e) gives
Raise(text) == [t |-> "raise", v |-> 0, text |-> text]

\* str(e): an exception raised inside the code modelled here carries no
\* text of its own and is written `exception`
ExceptionText(e) == IF "text" \in DOMAIN e THEN e.text ELSE "exception"

\* goal_mapping.get(goal_type, 'sustainable environmental plantation')
user_goal_of(goal_type) ==
    CASE goal_type = Str("cash_crops") ->
            Str("commercial cash crop cultivation for maximum economic returns")
      [] goal_type = Str("food_crops") ->
            Str("food crop cultivation for nutrition and food security")
      [] goal_type = Str("afforestation") ->
            Str("afforestation and tree plantation for environmental benefits")
      [] OTHER -> Str("sustainable environmental plantation")

create_error_response(backend, error_message) ==
    IF backend = "gemini" THEN gemini_create_error_response(error_message)
    ELSE local_create_error_response(error_message)

\* One call of get_recommendations between its steps:
\* [pc |-> "attempt" inside the loop, "returned" after the return,
\*  backend |-> "gemini" or "local", attempt |-> the loop variable,
\*  prompt |-> the prompt built before the loop (None: none was built),
\*  model |-> model_to_use of the local backend,
\*  requests |-> the requests sent to the model so far, in order,
\*  responses |-> what came back for each of them, in order,
\*  parsed |-> what each attempt got out of its response, in order,
\*  ret |-> the value returned (None before the return)]
Returned(st, value) == [st EXCEPT !.pc = "returned", !.ret = value]

Calling(backend, prompt, model) ==
    [pc |-> "attempt", backend |-> backend, attempt |-> 0, prompt |-> prompt,
     model |-> model, requests |-> <<>>, responses |-> <<>>, parsed |-> <<>>,
     ret |-> None]

\* the prompt generate_chat_completion sends (local_api.py:152-155)
sent_prompt(prompt) ==
    IF Len(prompt) > max_prompt_length
    THEN Slice(prompt, 0, max_prompt_length)
            \o "\n\nPlease provide 5 plant recommendations in JSON format with specific water amounts and sunlight hours."
    ELSE prompt

\* model.generate_content(prompt) / generate_chat_completion(prompt,
\* model_to_use) was called and gave `response`: one more request was sent
Requested(st, response) ==
    [st EXCEPT !.requests =
                  Append(@, [prompt |-> IF st.backend = "local"
                                        THEN sent_prompt(st.prompt.v)
                                        ELSE st.prompt.v,
                             model |-> st.model]),
               !.responses = Append(@, response)]

\* the loop without the return of its last turn: the call ends with no
\* value
attempt_failed_without_return(st, outcome, error_message) ==
    IF st.attempt = max_retries - 1
    THEN Returned([st EXCEPT !.parsed = Append(@, outcome)], None)
    ELSE [st EXCEPT !.parsed = Append(@, outcome), !.attempt = @ + 1]

\* the attempt got nothing: the error record on the last attempt, the next
\* attempt otherwise
attempt_failed(st, outcome, error_message) ==
    IF st.attempt = max_retries - 1
    THEN Returned([st EXCEPT !.parsed = Append(@, outcome)],
                  create_error_response(st.backend, error_message))
    ELSE [st EXCEPT !.parsed = Append(@, outcome), !.attempt = @ + 1]

\* what the model answers in the runs below: texts with records, of the
\* wrong shape, without JSON, and empty ones
RecordsText == "{\"recommendations\": [{\"scientific_name\": \"Ficus religiosa\"}]}"
BareArrayText == "[{\"scientific_name\": \"Ficus religiosa\"}]"
WrongShapeText == "{\"plants\": []}"
ProseText == "I cannot help with that."

AnswerTexts == {RecordsText, BareArrayText, WrongShapeText, ProseText, "", " \n"}

\* what each parser returns for the texts of AnswerTexts, computed once
gemini_parsed == [t \in AnswerTexts |-> parse_enhanced_gemini_response(Str(t)).ret]
local_parsed == [t \in AnswerTexts |-> parse_enhanced_local_response(Str(t)).ret]

\* parse_enhanced_gemini_response(response.text) and
\* parse_enhanced_local_response(response) as get_recommendations calls
\* them: the value returned, looked up for a text of AnswerTexts
parsed_response(backend, response) ==
    IF backend = "gemini"
    THEN (IF response.v \in AnswerTexts THEN gemini_parsed[response.v]
          ELSE parse_enhanced_gemini_response(response).ret)
    ELSE (IF response.v \in AnswerTexts THEN local_parsed[response.v]
          ELSE parse_enhanced_local_response(response).ret)

\* the attempt parsed its response (gemini_api.py:97-105,
\* local_api.py:123-131)
attempt_parsed(st, parsed_recommendations, service) ==
    IF IsRaised(parsed_recommendations)
    THEN attempt_failed(st, Raised, service \o " error: " \o ExceptionText(parsed_recommendations))
    ELSE IF IsList(parsed_recommendations) /\ Len(parsed_recommendations.v) > 0
    THEN Returned([st EXCEPT !.parsed = Append(@, parsed_recommendations)],
                  parsed_recommendations)
    ELSE attempt_failed(st, parsed_recommendations,
                        "Unable to generate valid recommendations after multiple attempts")

\* one turn of the loop of the Gemini backend (gemini_api.py:92-109) for
\* what generate_content and response.text give: a text, or an exception
gemini_attempt(st, response) ==
    IF IsRaised(response)
    THEN attempt_failed(Requested(st, response), Raised, "AI service error: " \o ExceptionText(response))
    ELSE attempt_parsed(Requested(st, response), parsed_response("gemini", response),
                        "AI service")

\* one turn of the loop of the local backend (local_api.py:117-140) for
\* what generate_chat_completion returns: the content, or None
local_attempt(st, response) ==
    IF ~Truthy(response)
    THEN attempt_failed(Requested(st, response), None,
                        "Local model not responding. Please check if LM Studio is running and the model is loaded.")
    ELSE IF ~IsStr(response)
    THEN attempt_failed(Requested(st, response), Raised, "Local AI service error: exception")
    ELSE IF Strip(response.v) = ""
    THEN attempt_failed(Requested(st, response), None,
                        "Local model not responding. Please check if LM Studio is running and the model is loaded.")
    ELSE attempt_parsed(Requested(st, response), parsed_response("local", response),
                        "Local AI service")

\* the call up to the loop, for the prompt that was built
call_started(backend, prompt, model) ==
    IF IsRaised(prompt)
    THEN Returned(Calling(backend, None, model),
                  create_error_response(backend, "System error: " \o ExceptionText(prompt)))
    ELSE Calling(backend, prompt, model)

\* get_recommendations of the Gemini backend up to its loop
\* (gemini_api.py:68-91): api_key tells whether configure_gemini_api finds a
\* key, current_month is the month of the clock
gemini_get_recommendations(location_data, prefer_native, goal_type, lat, lon, api_key, current_month) ==
    IF ~api_key
    THEN Returned(Calling("gemini", None, "gemini-1.5-flash"),
                  gemini_create_error_response(
                      "System error: No Gemini API key found. Please provide an API key."))
    ELSE call_started("gemini",
                      create_enhanced_recommendation_prompt(
                          location_data, user_goal_of(goal_type), prefer_native,
                          goal_type, lat, lon, current_month),
                      "gemini-1.5-flash")

\* get_recommendations of the local backend up to its loop
\* (local_api.py:87-116): connected is what check_lm_studio_connection
\* returns, available_models what get_available_models returns
local_get_recommendations(location_data, prefer_native, goal_type, lat, lon, connected, available_models) ==
    IF ~connected
    THEN Returned(Calling("local", None, ""),
                  local_create_error_response(
                      "LM Studio is not running. Please start LM Studio server first."))
    ELSE IF Len(available_models) = 0
    THEN Returned(Calling("local", None, ""),
                  local_create_error_response(
                      "No models found in LM Studio. Please load a model first."))
    ELSE call_started("local",
                      create_concise_local_prompt(
                          location_data, user_goal_of(goal_type), prefer_native,
                          goal_type, lat, lon),
                      IF \E i \in 1..Len(available_models) : available_models[i] = MODEL_NAME
                      THEN MODEL_NAME ELSE available_models[1])

(***************************************************************************)
(* One call of get_recommendations, step by step                           *)
(***************************************************************************)
\* what a request to Gemini gives: an exception of the client, or a text
GeminiResponses == {Raise("503 service unavailable")} \cup {Str(t) : t \in AnswerTexts}

\* what generate_chat_completion returns: None after any failure, or the
\* content
LocalResponses == {None} \cup {Str(t) : t \in AnswerTexts}

\* the months of the clock, one of each season
Months == {2, 5, 8}

\* what get_available_models returns
ModelLists == {<<>>, <<MODEL_NAME>>, <<"qwen2.5-3b", "phi-3-mini">>}

RecommendationArguments ==
    {[location_data |-> PutField(Dict([location |-> Str("Pune"), rainfall |-> PyInt(1300)]),
                                 "user_preferences", user_preferences),
      prefer_native |-> Bool(TRUE),
      goal_type |-> Str(goal_type),
      lat |-> PyFloat("18.5204"), lon |-> PyFloat("73.8567")] :
        user_preferences \in {Absent,
                              Dict([space_location_type |-> Str("Balcony")]),
                              Dict([space_availability |-> None])},
        goal_type \in {"afforestation", "cash_crops"}}

InitRetry ==
    /\ call = "none"
    /\ arg \in RecommendationArguments
    /\ ret = None
    /\ aux = None

\* gemini_api.get_recommendations is called and runs up to its loop
CallGemini ==
    /\ call = "none"
    /\ call' = "gemini_api.get_recommendations"
    /\ \E api_key \in BOOLEAN, current_month \in Months :
          aux' = gemini_get_recommendations(arg.location_data, arg.prefer_native,
                                            arg.goal_type, arg.lat, arg.lon,
                                            api_key, current_month)
    /\ ret' = aux'.ret
    /\ UNCHANGED arg

\* one turn of the loop: the request, its response, the parse
GeminiAttempt ==
    /\ call = "gemini_api.get_recommendations"
    /\ aux.pc = "attempt"
    /\ \E response \in GeminiResponses : aux' = gemini_attempt(aux, response)
    /\ ret' = aux'.ret
    /\ UNCHANGED <<call, arg>>

\* local_api.get_recommendations is called and runs up to its loop
CallLocal ==
    /\ call = "none"
    /\ call' = "local_api.get_recommendations"
    /\ \E connected \in BOOLEAN, available_models \in ModelLists :
          aux' = local_get_recommendations(arg.location_data, arg.prefer_native,
                                           arg.goal_type, arg.lat, arg.lon,
                                           connected, available_models)
    /\ ret' = aux'.ret
    /\ UNCHANGED arg

LocalAttempt ==
    /\ call = "local_api.get_recommendations"
    /\ aux.pc = "attempt"
    /\ \E response \in LocalResponses : aux' = local_attempt(aux, response)
    /\ ret' = aux'.ret
    /\ UNCHANGED <<call, arg>>

NextRetry == CallGemini \/ GeminiAttempt \/ CallLocal \/ LocalAttempt

\* a call that has started runs until it returns: every request comes back
\* or fails (requests.post has a timeout, local_api.py:182)
SpecRetry == InitRetry /\ [][NextRetry]_vars /\ WF_vars(NextRetry)

\* get_recommendations is running or has returned
Called == call \in {"gemini_api.get_recommendations", "local_api.get_recommendations"}

HasReturned == Called /\ aux.pc = "returned"

\* a value the attempt could return: a list that is not empty
NonEmptyList(x) == IsList(x) /\ Len(x.v) > 0

\* the list holds one record, an ErrorRecommendation: error is true and a
\* message comes with it
IsErrorResponse(x) ==
    /\ IsList(x)
    /\ Len(x.v) = 1
    /\ Field(x.v[1], "error") = Bool(TRUE)
    /\ IsStr(Field(x.v[1], "message"))
    /\ Field(x.v[1], "message").v # ""

\* C13: one call of get_recommendations, of either backend, sends at most 3
\* requests to the model, one per step and each with the same prompt, sends
\* none after the first attempt whose parsed result is a list that is not
\* empty, and always ends by returning a list that is not empty (plant
\* records or one error record), never no value.
C13_BoundedRetry ==
    /\ [](Called =>
            /\ Len(aux.requests) <= 3
            /\ \A i \in 1..Len(aux.requests) : aux.requests[i] = aux.requests[1]
            /\ \A i \in 1..(Len(aux.parsed) - 1) : ~NonEmptyList(aux.parsed[i])
            /\ aux.pc = "returned" => NonEmptyList(ret))
    /\ [][Called =>
            /\ Len(aux'.requests) <= Len(aux.requests) + 1
            /\ SubSeq(aux'.requests, 1, Len(aux.requests)) = aux.requests
            /\ (aux.pc = "returned"
                \/ (Len(aux.parsed) > 0 /\ NonEmptyList(aux.parsed[Len(aux.parsed)])))
                    => aux'.requests = aux.requests]_vars
    /\ <>HasReturned

\* the call sent its three requests, none of them gave records, and it
\* returned the error record
C13_ReturnedAfterRetries ==
    /\ HasReturned
    /\ Len(aux.requests) = 3
    /\ ~NonEmptyList(aux.parsed[3])
    /\ IsErrorResponse(ret)

\* the response is a failure of the request, no text, or an empty text
FailedOrEmpty(response) ==
    IsRaised(response) \/ response.t = "none" \/ (IsStr(response) /\ response.v = "")

\* C14: an attempt whose request fails (raises) or gives an empty or
\* missing text is followed by the next attempt, up to 3; when all 3 end
\* that way get_recommendations returns a list of exactly one
\* ErrorRecommendation (error true, with a message) and no plant record, in
\* the Gemini and in the local backend.
C14_RetryThenErrorRecord ==
    (/\ Called
     /\ Len(aux.responses) > 0
     /\ \A i \in 1..Len(aux.responses) : FailedOrEmpty(aux.responses[i]))
        => /\ Len(aux.responses) < 3 => aux.pc = "attempt" /\ aux.attempt = Len(aux.responses)
           /\ Len(aux.responses) = 3 => aux.pc = "returned" /\ IsErrorResponse(ret)

\* the same for the requests that fail or give no text at all
C14_FailuresRetried ==
    (/\ Called
     /\ Len(aux.responses) > 0
     /\ \A i \in 1..Len(aux.responses) :
            IsRaised(aux.responses[i]) \/ aux.responses[i].t = "none")
        => /\ Len(aux.responses) < 3 => aux.pc = "attempt" /\ aux.attempt = Len(aux.responses)
           /\ Len(aux.responses) = 3 => aux.pc = "returned" /\ IsErrorResponse(ret)

\* the last response is a text that holds more than whitespace
AnsweredWithText ==
    /\ Called
    /\ Len(aux.responses) > 0
    /\ IsStr(aux.responses[Len(aux.responses)])
    /\ Strip(aux.responses[Len(aux.responses)].v) # ""

\* C15: whenever the model returned a text that is not empty, whatever it
\* holds (prose, broken JSON, JSON of the wrong shape such as an object
\* without recommendations), get_recommendations returns plant records
\* (parsed, partially extracted or the static fallback): it returns no
\* ErrorRecommendation and does not go on without a value.
C15_TextNeverAnError ==
    AnsweredWithText =>
        /\ aux.pc = "returned"
        /\ NonEmptyList(ret)
        /\ ~IsErrorResponse(ret)

\* the same in the local backend alone
C15_HoldsInLocalBackend == call = "local_api.get_recommendations" => C15_TextNeverAnError

(***************************************************************************)
(* Objects without recommendations and bare arrays, checked under Spec     *)
(***************************************************************************)
\* the response is the JSON text of an object whose recommendations key is
\* absent or holds an empty list
ObjectWithoutRecommendations(response) ==
    /\ IsStr(response)
    /\ json_loads(response.v).ok
    /\ IsDict(json_loads(response.v).val)
    /\ Get(json_loads(response.v).val, "recommendations", List(<<>>)) = List(<<>>)

\* what partial pattern extraction, and after it the static fallback, of
\* the parser named by `backend` gives for the cleaned text of the response
PartialOf(backend, response) ==
    IF backend = "parse_enhanced_gemini_response"
    THEN gemini_extract_partial_recommendations(Str(strip_code_fences(response.v))).ret
    ELSE local_extract_partial_recommendations(Str(strip_code_fences(response.v))).ret

\* C19: when the extracted JSON parses to an object whose recommendations
\* key is absent or empty, the parser of each backend falls through to
\* partial pattern extraction and, when that finds nothing, to the static
\* fallback, and returns their records.
C19_EmptyObjectFallsThrough ==
    (Parsed /\ ObjectWithoutRecommendations(arg)) =>
        /\ aux.stage \in {"partial", "fallback"}
        /\ ret = PartialOf(call, arg)
        /\ IsList(ret) /\ Len(ret.v) >= 1

\* the same in the local parser alone
C19_HoldsInLocalParser ==
    call = "parse_enhanced_local_response" => C19_EmptyObjectFallsThrough

\* the response is the JSON text of an array of record objects, at least one
BareArray(response) ==
    /\ IsStr(response)
    /\ json_loads(response.v).ok
    /\ IsList(json_loads(response.v).val)
    /\ Len(json_loads(response.v).val.v) >= 1
    /\ \A i \in 1..Len(json_loads(response.v).val.v) :
            IsDict(json_loads(response.v).val.v[i])

\* the record the parser named by `backend` makes of one parsed record
NormalizedBy(backend, rec) ==
    IF backend = "parse_enhanced_gemini_response" THEN gemini_enhance_record(rec)
    ELSE local_enhance_record(normalize_recommendation_fields(rec))

\* C20: when the response is a bare JSON array of record objects, with no
\* object around it, the parser of each backend returns the records of that
\* array, normalized: one output record per element of the array, in order.
C20_BareArrayRecords ==
    (Parsed /\ BareArray(arg)) =>
        /\ IsList(ret)
        /\ Len(ret.v) = Len(json_loads(arg.v).val.v)
        /\ \A i \in 1..Len(json_loads(arg.v).val.v) :
                ret.v[i] = NormalizedBy(call, json_loads(arg.v).val.v[i])

\* the same in the local parser alone, for the arrays whose strings hold no
\* bracket
C20_HoldsInLocalParser ==
    (call = "parse_enhanced_local_response" /\ arg.v \notin BracketTexts)
        => C20_BareArrayRecords

(***************************************************************************)
(* The UI adapters applied to records that name their water and sunlight   *)
(* values in either convention and hold some of the optional fields        *)
(***************************************************************************)
\* the water and the sunlight data of a record, under each of the two names
\* (water_needs or water_requirements, sunlight or sunlight_requirements),
\* in quantities no frequency word stands in
WaterData ==
    {[water_needs |-> Absent, water_requirements |-> Absent],
     [water_needs |-> Dict([seedling |-> Str("12 liters per week"),
                            mature |-> Str("30 liters per week")]),
      water_requirements |-> Absent],
     [water_needs |-> Dict([mature |-> Str("30 liters per week")]),
      water_requirements |-> Absent],
     [water_needs |-> Absent,
      water_requirements |-> Dict([seedling_stage |-> Str("12 liters per week"),
                                   mature_plant |-> Str("30 liters per week")])]}
SunlightData ==
    {[sunlight |-> Absent, sunlight_requirements |-> Absent],
     [sunlight |-> Dict([daily_hours |-> Str("5 hours"), type |-> Str("Partial Sun")]),
      sunlight_requirements |-> Absent],
     [sunlight |-> Absent,
      sunlight_requirements |-> Dict([daily_hours_needed |-> Str("5 hours"),
                                      light_intensity |-> Str("Partial Sun")])]}

\* the optional fields of a record, a value of each as a model sends it, and
\* the empty value of its kind
OptionalFields ==
    {"air_quality_benefits", "growth_characteristics", "plantation_guide",
     "maintenance_schedule", "economic_benefits", "sustainability_highlights",
     "suitability_analysis", "user_goal_alignment", "companion_plants"}
OptionalValues ==
    [air_quality_benefits |-> Dict([co2_absorption |-> Str("48 kg per year")]),
     growth_characteristics |-> Dict([mature_height |-> Str("12 meters")]),
     plantation_guide |-> Dict([best_season |-> Str("Winter")]),
     maintenance_schedule |-> Dict([weekly |-> Str("Check for pests")]),
     economic_benefits |-> Dict([initial_cost |-> Str("Rs 80 per plant")]),
     sustainability_highlights |-> List(<<Str("Nitrogen fixing")>>),
     suitability_analysis |-> Str("Thrives in black soil"),
     user_goal_alignment |-> Str("Good for cash crops"),
     companion_plants |-> Str("Turmeric")]
EmptyValues ==
    [f \in OptionalFields |->
        IF IsDict(OptionalValues[f]) THEN EmptyDict
        ELSE IF IsList(OptionalValues[f]) THEN List(<<>>) ELSE Str("")]

\* the optional fields a record holds: none, all, or those of one kind
OptionalChoices ==
    {{}, OptionalFields,
     {"air_quality_benefits", "growth_characteristics", "sustainability_highlights"},
     {"plantation_guide", "maintenance_schedule", "economic_benefits"},
     {"suitability_analysis", "user_goal_alignment", "companion_plants"}}

\* rec with the fields of `fields` set to their values in `values`
WithFields(rec, fields, values) == Dict([f \in fields |-> values[f]] @@ rec.v)

FieldRecords ==
    {WithFields(
        PutField(PutField(PutField(PutField(
            Dict([scientific_name |-> Str("Cajanus cajan"), common_name |-> Str("Pigeon pea")]),
            "water_needs", water.water_needs),
            "water_requirements", water.water_requirements),
            "sunlight", sun.sunlight),
            "sunlight_requirements", sun.sunlight_requirements),
        fields, values) :
        water \in WaterData, sun \in SunlightData,
        fields \in OptionalChoices, values \in {OptionalValues, EmptyValues}}

InitFields ==
    /\ call = "none"
    /\ arg \in FieldRecords
    /\ ret = None
    /\ aux = None

NextFields == AdaptLocal \/ AdaptGemini

SpecFields == InitFields /\ [][NextFields]_vars

\* the value the model supplied for a canonical name: the one under the
\* alternate name when the record holds it, else the one under the
\* canonical name; None when it gave neither
Supplied(rec, name) ==
    IF Field(Field(rec, name.alternate_key), name.alternate) # None
    THEN Field(Field(rec, name.alternate_key), name.alternate)
    ELSE Field(Field(rec, name.key), name.canonical)

CanonicalNames ==
    {[alternate_key |-> "water_needs", alternate |-> "seedling",
      key |-> "water_requirements", canonical |-> "seedling_stage"],
     [alternate_key |-> "water_needs", alternate |-> "mature",
      key |-> "water_requirements", canonical |-> "mature_plant"],
     [alternate_key |-> "sunlight", alternate |-> "daily_hours",
      key |-> "sunlight_requirements", canonical |-> "daily_hours_needed"],
     [alternate_key |-> "sunlight", alternate |-> "type",
      key |-> "sunlight_requirements", canonical |-> "light_intensity"]}

\* the local pipeline has returned the record it made of arg
LocalAdapted == call = "enhance_local_recommendations_for_ui" /\ IsList(ret)

\* C16: in the full local pipeline a water or sunlight value the model
\* supplied, under the alternate or under the canonical name, reaches the
\* output under the canonical name unchanged (water_requirements
\* seedling_stage and mature_plant, sunlight_requirements daily_hours_needed
\* and light_intensity); the generic default appears only when the model
\* gave no value.
C16_ValuesReachOutput ==
    LocalAdapted =>
        \A name \in CanonicalNames :
            Supplied(arg, name) # None =>
                Field(Field(ret.v[1], name.key), name.canonical) = Supplied(arg, name)

\* what the local pipeline does: the four canonical names always hold the
\* generic defaults, whatever the model supplied
C16_AlwaysTheDefaults ==
    LocalAdapted =>
        /\ Field(Field(ret.v[1], "water_requirements"), "seedling_stage")
                = Str("5-10 liters per week for first 6 months")
        /\ Field(Field(ret.v[1], "water_requirements"), "mature_plant")
                = Str("25-40 liters per week for mature plants")
        /\ Field(Field(ret.v[1], "sunlight_requirements"), "daily_hours_needed")
                = Str("6-8 hours")
        /\ Field(Field(ret.v[1], "sunlight_requirements"), "light_intensity")
                = Str("Full Sun")

\* C18: normalization fills only gaps: an optional field (air_quality_benefits,
\* growth_characteristics, plantation_guide, maintenance_schedule,
\* economic_benefits, sustainability_highlights, suitability_analysis,
\* user_goal_alignment, companion_plants) the input record holds with a
\* truthy value holds the identical value in the normalized record, and a
\* default is written only where the field is absent or falsy, in the
\* Gemini adapter and in the local adapter.
C18_FillsOnlyGaps ==
    (call # "none" /\ IsList(ret)) =>
        \A f \in OptionalFields :
            Truthy(Field(arg, f)) => Field(ret.v[1], f) = Field(arg, f)

\* the same in the Gemini adapter alone
C18_HoldsInGeminiAdapter ==
    call = "enhance_recommendations_for_ui" => C18_FillsOnlyGaps

(***************************************************************************)
(* The order of the recovery stages, checked under Spec                    *)
(***************************************************************************)
\* the text holds a quoted scientific_name, common_name or local_name field
HasNameField(text) ==
    \E field \in {"scientific_name", "common_name", "local_name"} :
        Len(findall_field(text, field, 0)) > 0

\* the parser returned what pattern extraction or the static fallback gave
PastStructure == Parsed /\ aux.stage \in {"partial", "fallback"}

\* C21: the recovery stages run in a fixed order, a later one only when every
\* earlier one failed: the static fallback list is returned only when
\* pattern extraction found no quoted scientific_name, common_name or
\* local_name field in the text; whenever one such field is there and no
\* structure parses, the result is the records synthesized from the
\* extracted names, at most 5, and not the static fallback.
C21_FallbackOnlyWithoutNames ==
    (PastStructure /\ HasNameField(arg.v)) =>
        /\ aux.stage = "partial"
        /\ IsList(ret) /\ Len(ret.v) \in 1..MaxPlants
        /\ ret # FallbackOf(call)

\* what the code does: pattern extraction gives records when the text holds
\* a scientific_name field and, in the Gemini parser, a common_name field as
\* well; otherwise the static fallback is returned
C21_FallbackWithoutNamePair ==
    PastStructure =>
        (aux.stage = "partial") =
            (/\ Len(findall_field(arg.v, "scientific_name", 0)) > 0
             /\ (call = "parse_enhanced_gemini_response"
                    => Len(findall_field(arg.v, "common_name", 0)) > 0))

(***************************************************************************)
(* The planting window of the records the adapters return                  *)
(***************************************************************************)
\* the best season a record states in its plantation_guide, and the
\* planting window a model may send
SeasonTexts ==
    {"Monsoon (June-September)", "Post-monsoon (October-November)",
     "Winter months", "Early spring", ""}
GivenWindows ==
    {Absent,
     Dict([best_months |-> List(<<Str("March"), Str("April")>>),
           can_plant_now |-> Bool(FALSE)])}

WindowRecords ==
    {PutField(PutField(PutField(PutField(
        Dict([scientific_name |-> Str("Triticum aestivum"), common_name |-> Str("Wheat")]),
        "plantation_guide", guide), "planting_window", window),
        "water_needs", water.water_needs), "sunlight", sun.sunlight) :
        guide \in {Absent} \cup {Dict([best_season |-> Str(s)]) : s \in SeasonTexts},
        window \in GivenWindows, water \in WaterData, sun \in SunlightData}

InitWindow ==
    /\ call = "none"
    /\ arg \in WindowRecords
    /\ ret = None
    /\ aux = None

\* local_api.py:428-430: the records of a repaired array reach
\* enhance_local_recommendations_for_ui without normalization
EnhanceRepaired ==
    /\ call = "none"
    /\ call' = "enhance_local_recommendations_for_ui (repaired)"
    /\ ret' = enhance_local_recommendations_for_ui(List(<<arg>>))
    /\ UNCHANGED <<arg, aux>>

NextWindow == AdaptLocal \/ EnhanceRepaired \/ AdaptGemini

SpecWindow == InitWindow /\ [][NextWindow]_vars

\* the best season the record states, in lower case; "" when it states none
StatedSeason(rec) ==
    IF IsStr(Field(Field(rec, "plantation_guide"), "best_season"))
    THEN Lower(Field(Field(rec, "plantation_guide"), "best_season").v) ELSE ""

\* the months the stated season stands for
SeasonMonths(season) ==
    IF Contains(season, "post-monsoon") THEN <<"October", "November">>
    ELSE IF Contains(season, "monsoon") THEN <<"June", "July", "August", "September">>
    ELSE IF Contains(season, "winter") THEN <<"December", "January", "February">>
    ELSE <<"June", "July", "August">>

\* window is a planting window for these months: can_plant_now is true and
\* the justification and the mitigation text are not empty
WindowFor(window, months) ==
    /\ IsDict(window)
    /\ Field(window, "best_months") = List([i \in 1..Len(months) |-> Str(months[i])])
    /\ Field(window, "can_plant_now") = Bool(TRUE)
    /\ Truthy(Field(window, "planting_window_justification"))
    /\ Truthy(Field(window, "planting_mitigation_steps"))

\* an adapter has returned the record it made of a record that came without
\* a planting_window
AdaptedWithoutWindow == call # "none" /\ IsList(ret) /\ ~Has(arg, "planting_window")

\* C22: for a record the model sent without a planting_window, the output
\* record has a planting_window whose best_months follow the record's
\* plantation_guide.best_season (post-monsoon: October-November, monsoon:
\* June-September, winter: December-February, no season text: the generic
\* monsoon default), can_plant_now is true, and the justification and the
\* mitigation text are not empty.
C22_WindowFollowsSeason ==
    AdaptedWithoutWindow =>
        WindowFor(Field(ret.v[1], "planting_window"), SeasonMonths(StatedSeason(arg)))

\* what the code does: after normalization the window is the fixed default,
\* whatever season is stated; without normalization it is the inferred one,
\* where a post-monsoon text falls under monsoon; the Gemini adapter adds no
\* planting_window
C22_WindowOfEachPath ==
    AdaptedWithoutWindow =>
        CASE call = "enhance_local_recommendations_for_ui" ->
                WindowFor(Field(ret.v[1], "planting_window"), <<"June", "July", "August">>)
          [] call = "enhance_local_recommendations_for_ui (repaired)" ->
                WindowFor(Field(ret.v[1], "planting_window"),
                          IF Contains(StatedSeason(arg), "monsoon")
                          THEN <<"June", "July", "August", "September">>
                          ELSE SeasonMonths(StatedSeason(arg)))
          [] OTHER -> ~Has(ret.v[1], "planting_window")

(***************************************************************************)
(* clean_json_string applied to valid JSON, and the parsers applied to the *)
(* same responses                                                          *)
(***************************************************************************)
\* the text between the quotes of a JSON string value: plain, empty, with
\* escaped quotes, with three dots, with a comma before a bracket, with two
\* spaces
ValueBodies ==
    {"Neem", "", "the \\\"sacred\\\" fig", "grows fast...", "plots [a,]", "two  spaces"}

RecordOf(scientific, common) ==
    "{\"scientific_name\": \"" \o scientific \o "\", \"common_name\": \"" \o common \o "\"}"

\* valid JSON responses of 1 to MaxPlants complete records
ValidTexts ==
    {"{\"recommendations\": [" \o RecordOf(b1, b2) \o "]}" :
        b1 \in ValueBodies, b2 \in ValueBodies}
    \cup {"{\"recommendations\": [" \o Records(RecordOf("Ficus religiosa", "Peepal"), n) \o "]}" :
            n \in 1..MaxPlants}

InitClean ==
    /\ call = "none"
    /\ arg \in {Str(t) : t \in ValidTexts}
    /\ ret = None
    /\ aux = None

\* gemini_api.py:445, local_api.py:413, 451: the extracted text is sanitized;
\* aux is what json.loads makes of the sanitized text
CleanJson ==
    /\ call = "none"
    /\ call' = "clean_json_string"
    /\ ret' = Str(clean_json_string(arg.v))
    /\ aux' = json_loads(clean_json_string(arg.v))
    /\ UNCHANGED arg

NextClean == CleanJson \/ ParseGemini \/ ParseLocal

SpecClean == InitClean /\ [][NextClean]_vars

\* the value of a valid JSON text, up to whitespace inside its strings: what
\* json.loads makes of the text with every run of whitespace collapsed
MeaningOf(text) == json_loads(Strip(CollapseWhitespace(text)))

\* the records a valid response holds
RecordsOf(text) == MeaningOf(text).val.v["recommendations"].v

\* C23: clean_json_string does not change the meaning of text that is valid
\* JSON already (texts with empty string values, escaped quotes or three
\* dots inside a string value included): parsing the sanitized text succeeds
\* and gives the same value, up to whitespace inside strings; hence a valid
\* JSON response of 1 to 5 complete records yields exactly those records,
\* no placeholder and no fallback record.
C23_CleanKeepsMeaning ==
    /\ call = "clean_json_string" =>
            /\ MeaningOf(arg.v).ok
            /\ aux.ok
            /\ aux.val = MeaningOf(arg.v).val
    /\ Parsed =>
            /\ IsList(ret)
            /\ Len(ret.v) = Len(RecordsOf(arg.v))
            /\ \A i \in 1..Len(RecordsOf(arg.v)) :
                    \A field \in {"scientific_name", "common_name"} :
                        Field(ret.v[i], field) = Field(RecordsOf(arg.v)[i], field)

\* the string values that hold none of the patterns clean_json_string
\* rewrites
PlainBodies == {"Neem", "two  spaces", "Ficus religiosa", "Peepal"}

\* the same for the responses whose string values are plain
C23_HoldsForPlainValues ==
    (\A i \in 1..Len(RecordsOf(arg.v)) :
        \A field \in {"scientific_name", "common_name"} :
            \E b \in PlainBodies :
                Field(RecordsOf(arg.v)[i], field) = Str(Strip(CollapseWhitespace(b))))
        => C23_CleanKeepsMeaning

(***************************************************************************)
(* normalize_recommendation_fields applied to records whose water values   *)
(* are frequency phrases                                                   *)
(***************************************************************************)
\* water values as a model words them: with a frequency word, with a liter
\* quantity, with both, with neither
WaterPhrases ==
    {"daily", "Weekly watering", "alternate days", "every 3 days", "monthly",
     "2 liters daily", "30 liters per week", "when the soil is dry"}
PlantTypes == {Absent, Str("Fruit Tree"), Str("Food crop"), Str("Herb")}

PhraseRecords ==
    {PutField(
        Dict([scientific_name |-> Str("Psidium guajava"),
              water_requirements |-> Dict([seedling_stage |-> Str(seedling),
                                           mature_plant |-> Str(mature)])]),
        "plant_type", plant_type) :
        seedling \in WaterPhrases, mature \in WaterPhrases, plant_type \in PlantTypes}

InitPhrases ==
    /\ call = "none"
    /\ arg \in PhraseRecords
    /\ ret = None
    /\ aux = None

\* local_api.py:420: normalize_recommendation_fields(rec)
NormalizeFields ==
    /\ call = "none"
    /\ call' = "normalize_recommendation_fields"
    /\ ret' = normalize_recommendation_fields(arg)
    /\ UNCHANGED <<arg, aux>>

NextPhrases == NormalizeFields

SpecPhrases == InitPhrases /\ [][NextPhrases]_vars

\* the value holds one of the words
HoldsWord(value, words) == \E word \in words : Contains(Lower(value), word)

\* the entries of the lookup table for the plant type of rec and the stage
\* of the sub-field
TableEntries(rec, key) ==
    IF Contains(key, "seed")
    THEN {liters_bucket(Lower(Get(rec, "plant_type", Str("plant")).v))[e] :
            e \in {"seedling_daily", "seedling_alt", "seedling_weekly"}}
    ELSE {liters_bucket(Lower(Get(rec, "plant_type", Str("plant")).v))[e] :
            e \in {"mature_weekly", "mature_weekly_small"}}

\* the liters per week a vague value stands for: its own liter quantity when
\* it has one, else an entry of the table
ExplicitLiters(rec, key, value, liters) ==
    IF search_liters(Lower(value), 0) # ""
    THEN liters = Str(search_liters(Lower(value), 0) \o " liters per week")
    ELSE IsStr(liters) /\ liters.v \in TableEntries(rec, key)

\* after the call, the sub-fields whose value held one of `words` hold
\* explicit liters per week and the others are unchanged
Converted(words) ==
    call = "normalize_recommendation_fields" =>
        \A key \in {"seedling_stage", "mature_plant"} :
            IF HoldsWord(arg.v["water_requirements"].v[key].v, words)
            THEN ExplicitLiters(arg, key, arg.v["water_requirements"].v[key].v,
                                Field(Field(ret, "water_requirements"), key))
            ELSE Field(Field(ret, "water_requirements"), key)
                    = arg.v["water_requirements"].v[key]

\* C24: after normalize_recommendation_fields every water sub-field whose
\* value was a vague frequency phrase (it holds daily, weekly, alternate,
\* every or monthly) holds an explicit "X liters per week" string: the
\* value's own liter quantity when it had one, otherwise the entry of the
\* lookup table for the plant_type bucket of the record (tree, crop, other)
\* and the stage (seedling for the seedling sub-field, mature for the
\* others); the sub-fields without such a word are unchanged.
C24_FrequenciesConverted ==
    Converted({"daily", "weekly", "alternate", "every", "monthly"})

\* the same for the records none of whose values holds monthly, or every
\* without another of the words
C24_HoldsForDailyWeeklyAlternate ==
    (\A key \in {"seedling_stage", "mature_plant"} :
        arg.v["water_requirements"].v[key].v \notin {"monthly", "every 3 days"})
        => Converted({"daily", "weekly", "alternate"})

(***************************************************************************)
(* The numeric extraction of the user interface:                           *)
(* src/src/components/ui_components.py                                     *)
(***************************************************************************)
\* the patterns tried in order on the lowered text (ui_components.py:328-344)
ui_pattern_value(t) ==
    With(first_with_unit(t, {"kg", "l"}, 0), LAMBDA unit :
    IF unit # "" THEN int_of(unit) ELSE
    With(first_range(t, {"-"}, FALSE, 0), LAMBDA pair :
    IF pair # <<>> THEN int_of(pair[1]) ELSE
    With(FindAny(t, Digits, 0), LAMBDA k :
        IF k # -1 THEN int_of(Slice(t, k, NumberEndAt(t, k))) ELSE 25)))

ui_extract_number_from_text(text) ==
    IF ~Truthy(text) THEN 25 ELSE ui_pattern_value(Lower(Format(text)))

(***************************************************************************)
(* Both extract_number_from_text applied to the texts of a record          *)
(***************************************************************************)
\* texts that hold a qualitative word together with a number
MixedTexts ==
    {"high yield of 40 kg", "low cost, 50 rs", "excellent, about 30 liters",
     "moderate, 20-25", "very low, 5 liters", "good for 12 years", "poor soil 3 m",
     "medium 10 to 20", "8 meters high"}

InitExtract ==
    /\ call = "none"
    /\ arg \in {Str(t) : t \in NumberTexts \cup MixedTexts} \cup {None, PyInt(30), PyInt(0)}
    /\ ret = None
    /\ aux = None

\* ui_components.py:450: extract_number_from_text of the user interface
ExtractNumberUI ==
    /\ call = "none"
    /\ call' = "ui_components.extract_number_from_text"
    /\ ret' = PyInt(ui_extract_number_from_text(arg))
    /\ UNCHANGED <<arg, aux>>

NextExtract == ExtractNumber \/ ExtractNumberUI

SpecExtract == InitExtract /\ [][NextExtract]_vars

\* the constant of the qualitative word the text holds, -1 when it holds
\* none: very low before low, the synonyms of the code with their word
WordConstant(t) ==
    IF Contains(t, "very low") THEN 10
    ELSE IF Contains(t, "excellent") \/ Contains(t, "very high") THEN 40
    ELSE IF Contains(t, "high") \/ Contains(t, "good") THEN 35
    ELSE IF Contains(t, "moderate") \/ Contains(t, "medium") THEN 25
    ELSE IF Contains(t, "low") \/ Contains(t, "poor") THEN 15
    ELSE -1

\* the number of the priority order: unit-tagged number, range, qualitative
\* word, bare number, 25
PriorityValue(t) ==
    IF first_unit_match(t) # "" THEN int_of(first_unit_match(t))
    ELSE IF first_range_match(t) # <<>> THEN mean_of(first_range_match(t))
    ELSE IF WordConstant(t) # -1 THEN WordConstant(t)
    ELSE IF FindAny(t, Digits, 0) # -1
    THEN int_of(Slice(t, FindAny(t, Digits, 0), NumberEndAt(t, FindAny(t, Digits, 0))))
    ELSE 25

\* the text the patterns are applied to; "" for a value that is not truthy
LoweredText(text) == IF Truthy(text) THEN Strip(Lower(Format(text))) ELSE ""

\* C25: extract_number_from_text applies its patterns in this order: a
\* unit-tagged number (kg, liters, meters, currency) is returned as it is;
\* else a range a-b or a to b gives the rounded mean; else a qualitative
\* word gives its constant (excellent 40, high 35, moderate 25, low 15,
\* very low 10); else a bare number is returned; else 25.  A text with both
\* a unit-tagged number and a qualitative word gives the number, "very low"
\* gives 10, and the function never raises.
C25_PriorityOrder ==
    call = "extract_number_from_text" =>
        /\ ret.t = "int"
        /\ ret.v = PriorityValue(LoweredText(arg))

\* the same for the texts that hold no qualitative word
C25_HoldsWithoutWords ==
    (call = "extract_number_from_text" /\ WordConstant(LoweredText(arg)) = -1)
        => /\ ret.t = "int"
           /\ ret.v = PriorityValue(LoweredText(arg))

\* C30: the numeric extraction helper is one shared function in effect: the
\* extract_number_from_text of the report generator and the one of the UI
\* components return the same integer for every input text (ranges,
\* qualitative words, unit-tagged numbers, missing-data phrases, empty
\* text), so the totals of the UI equal the totals of the report.
C30_SameNumber ==
    call \in {"extract_number_from_text", "ui_components.extract_number_from_text"} =>
        /\ ret = PyInt(extract_number_from_text(arg))
        /\ ret = PyInt(ui_extract_number_from_text(arg))

\* the two functions agree on the texts with a number, no range and no
\* qualitative word, on the missing-data phrases and on the empty text
C30_SameWithoutWordsAndRanges ==
    (/\ WordConstant(LoweredText(arg)) = -1
     /\ first_range_match(LoweredText(arg)) = <<>>
     /\ first_unit_match(LoweredText(arg)) = first_with_unit(LoweredText(arg), {"kg", "l"}, 0))
        => C30_SameNumber

(***************************************************************************)
(* convert_area_to_square_meters applied to areas in units the conversion  *)
(* table does not hold                                                     *)
(***************************************************************************)
\* unit words that are no unit of the table
OtherUnits ==
    {"guntha", "marla", "cents", "kanal", "perch", "chains", "hands", "plots",
     "sq feet", "ground", "dhur", "shares"}
OtherUnitTexts ==
    {number \o sep \o unit : number \in AreaNumbers, sep \in {" ", ""}, unit \in OtherUnits}

InitUnits ==
    /\ call = "none"
    /\ arg \in {Str(t) : t \in OtherUnitTexts \cup AreaTexts}
    /\ ret = None
    /\ aux = None

NextUnits == ConvertArea

SpecUnits == InitUnits /\ [][NextUnits]_vars

\* the area text is this number followed by this unit word
AreaOf(number, unit) == arg \in {Str(number \o sep \o unit) : sep \in {" ", ""}}

\* C26: for an area text whose unit word is not one of the units of the
\* conversion table, convert_area_to_square_meters returns the leading
\* number unchanged (taken as square meters), whatever letters the unit
\* word holds; a factor is applied only when the text names a unit of the
\* table.
C26_OtherUnitsAsSquareMeters ==
    call = "convert_area_to_square_meters" =>
        \A number \in AreaNumbers, unit \in OtherUnits :
            AreaOf(number, unit) => ret = PyInt(Hundredths(number))

\* the same for the unit words in which no key of the table occurs
C26_HoldsWithoutKeyInside ==
    call = "convert_area_to_square_meters" =>
        \A number \in AreaNumbers, unit \in OtherUnits :
            (AreaOf(number, unit) /\ \A key \in TableUnits : ~Contains(unit, key))
                => ret = PyInt(Hundredths(number))

(***************************************************************************)
(* The parse attempts: responses whose JSON is broken in the ways the      *)
(* decoder reports (a missing comma, a string left open, text after the    *)
(* value, a missing value, a bare key), bare or inside prose and fences.   *)
(***************************************************************************)
BrokenObjects ==
    {"{\"recommendations\": [{\"scientific_name\": \"A\"} {\"scientific_name\": \"B\"}]}",
     "{\"recommendations\": [{\"scientific_name\": \"A\" \"common_name\": \"B\"}]}",
     "{\"recommendations\": [{\"scientific_name\": \"A}]}",
     "{\"recommendations\": [{\"scientific_name\": \"A\", \"common_name\": \"{\"}]} }",
     "{\"recommendations\": [{\"scientific_name\": \"}\"}]",
     "{\"recommendations\": [{\"scientific_name\": \"A\", \"note\": {\"b\": \"}\"}]",
     "{\"recommendations\": [{\"scientific_name\": }]}",
     "{recommendations: [{\"scientific_name\": \"A\"}]}",
     "{\"recommendations\" [{\"scientific_name\": \"A\"}]}",
     "{\"recommendations\": [{\"scientific_name\": \"A\"}]}"}

Wrappings == {<<"", "">>, <<"Here are the plants: ", "">>, <<"", " Plant them soon.">>, <<"Plants: ", " Good luck.">>}

AttemptTexts == {w[1] \o body \o w[2] : w \in Wrappings, body \in BrokenObjects}

InitAttempts ==
    /\ call = "none"
    /\ arg \in {Str(t) : t \in AttemptTexts}
    /\ ret = None
    /\ aux = None

NextAttempts == ParseGemini \/ ParseLocal

SpecAttempts == InitAttempts /\ [][NextAttempts]_vars

\* the texts the loop `for attempt in range(3)` hands to json.loads, in
\* order, from attempt on (gemini_api.py:447-466)
RECURSIVE gemini_parsed_texts(_, _)
gemini_parsed_texts(json_str, attempt) ==
    With(json_loads(json_str), LAMBDA r :
        IF r.ok /\ (~IsDict(r.val) \/ Truthy(Get(r.val, "recommendations", List(<<>>))))
        THEN <<json_str>>
        ELSE IF attempt < MaxParseAttempts - 1 THEN
            <<json_str>> \o gemini_parsed_texts(
                IF r.ok THEN json_str ELSE gemini_fix_json_error(json_str, r),
                attempt + 1)
        ELSE <<json_str>>)

\* the texts the Gemini parser has parsed in this state
TextsParsed ==
    IF call = "parse_enhanced_gemini_response" /\ aux.span # None
    THEN gemini_parsed_texts(clean_json_string(aux.span.v), 0)
    ELSE <<>>

RepairedKinds == {"Extra data", "Unterminated string", "Expecting ',' delimiter"}
KindOf(error) ==
    IF \E k \in RepairedKinds : Contains(error.msg, k)
    THEN CHOOSE k \in RepairedKinds : Contains(error.msg, k)
    ELSE "other"

\* the repair stated for an error kind, applied to text at the error offset
StatedRepair(text, kind, offset) ==
    With(Slice(text, 0, offset), LAMBDA cut :
        CASE kind = "Extra data" ->
                cut \o Repeat("}", Count(cut, "{") - Count(cut, "}"))
          [] kind = "Unterminated string" -> cut \o "\"" \o From(text, offset)
          [] kind = "Expecting ',' delimiter" -> cut \o "," \o From(text, offset)
          [] OTHER -> text)

\* attempt i of texts failed with one of the three repaired kinds
FailedWithKind(texts, i) ==
    With(json_loads(texts[i]), LAMBDA r : ~r.ok /\ KindOf(r) # "other")
RepairFollows(texts, i) ==
    With(json_loads(texts[i]), LAMBDA r :
        texts[i + 1] = StatedRepair(texts[i], KindOf(r), r.end))

\* C27: the Gemini parser parses the sanitized text at most 3 times; after a
\* failed first or second attempt with an extra-data, unterminated-string or
\* expected-comma error the next attempt parses the text with that kind's
\* repair applied at the error offset; a failed third attempt ends in partial
\* extraction; and no parser makes more than 3 parse attempts
C27_RepairAfterEachFailure ==
    /\ call # "none" => aux.attempts <= MaxParseAttempts
    /\ Len(TextsParsed) <= MaxParseAttempts
    /\ \A i \in 1..(Len(TextsParsed) - 1) :
          FailedWithKind(TextsParsed, i) => RepairFollows(TextsParsed, i)
    /\ (Len(TextsParsed) = MaxParseAttempts /\ ~json_loads(TextsParsed[MaxParseAttempts]).ok)
          => aux.stage \in {"partial", "fallback"}

\* the part that holds: at most 3 attempts in both parsers, partial
\* extraction after a failed third attempt, and the stated repair after
\* every failure whose error offset lies inside the text
C27_HoldsInsideTheText ==
    /\ call # "none" => aux.attempts <= MaxParseAttempts
    /\ Len(TextsParsed) = (IF TextsParsed = <<>> THEN 0 ELSE aux.attempts)
    /\ \A i \in 1..(Len(TextsParsed) - 1) :
          (FailedWithKind(TextsParsed, i) /\ json_loads(TextsParsed[i]).end < Len(TextsParsed[i]))
              => RepairFollows(TextsParsed, i)
    /\ (Len(TextsParsed) = MaxParseAttempts /\ ~json_loads(TextsParsed[MaxParseAttempts]).ok)
          => aux.stage \in {"partial", "fallback"}

(***************************************************************************)
(* The data quality summary: src/src/utils/data_processor.py:162-218       *)
(***************************************************************************)
\* the issues and the recommendations of the three status tests
quality_issues(status) ==
    (IF Get(status, "soil", None) = Str("default_values") THEN <<Str("Using default soil data")>> ELSE <<>>)
    \o (IF Get(status, "weather", None) = Str("default_values") THEN <<Str("Using default weather data")>> ELSE <<>>)
    \o (IF Get(status, "air_quality", None) = Str("default_values") THEN <<Str("Using default air quality data")>> ELSE <<>>)
quality_recommendations(status) ==
    (IF Get(status, "soil", None) = Str("default_values") THEN <<Str("Consider soil testing for more accurate results")>> ELSE <<>>)
    \o (IF Get(status, "weather", None) = Str("default_values") THEN <<Str("Check internet connection for real-time weather")>> ELSE <<>>)

\* the rating after the user customizations are counted: it starts as 'good'
improved_quality(overall_quality, user_customizations) ==
    IF ~Truthy(user_customizations) THEN overall_quality
    ELSE IF Len(user_customizations.v) >= 3 THEN "excellent"
    ELSE IF overall_quality = "poor" THEN "fair"
    ELSE IF overall_quality = "fair" THEN "good"
    ELSE overall_quality

\* the overall quality assessment
assessed_quality(overall_quality, issues, user_customizations) ==
    IF Len(issues) > 2 /\ ~Truthy(user_customizations) THEN "poor"
    ELSE IF Len(issues) > 0 /\ ~Truthy(user_customizations) THEN "fair"
    ELSE overall_quality

\* the notes about the data sources, appended to user_contributions
source_notes(data) ==
    (IF Get(data, "soil_texture_source", None) = Str("user_input") THEN <<Str("User-specified soil type improves accuracy")>> ELSE <<>>)
    \o (IF Get(data, "rainfall_source", None) = Str("user_preference") THEN <<Str("User water preference overrides API data")>> ELSE <<>>)
    \o (IF Get(data, "space_source", None) \in {Str("user_input"), Str("user_input_converted")} THEN <<Str("User-defined space constraints improve relevance")>> ELSE <<>>)

get_data_quality_summary(data) ==
    With(Get(data, "data_status", EmptyDict), LAMBDA status :
    With(Get(data, "user_customizations", List(<<>>)), LAMBDA user_customizations :
        Dict([overall_quality |->
                  Str(assessed_quality(improved_quality("good", user_customizations),
                                       quality_issues(status), user_customizations)),
              issues |-> List(quality_issues(status)),
              recommendations |-> List(quality_recommendations(status)),
              user_contributions |->
                  List((IF Truthy(user_customizations) THEN user_customizations.v ELSE <<>>)
                       \o source_notes(data))])))

(***************************************************************************)
(* The summary as a state machine: the environmental data of a request     *)
(* (arg) carries the status of the three sources as format_data_for_ai     *)
(* records them, the customizations the profile produced and the source    *)
(* marks; app.py:563 asks for the summary.                                 *)
(***************************************************************************)
\* soil_api.py:120, weather_api.py:124, 277; data_processor.py:31-33
SourceStatuses == {Str("success"), Str("default_values"), Str("unknown")}

\* the overrides format_data_for_ai collects (data_processor.py:60-131)
Customizations ==
    {Absent,
     List(<<Str("Soil: Clay")>>),
     List(<<Str("Soil: Clay"), Str("Budget: Low")>>),
     List(<<Str("Soil: Clay"), Str("Location: Balcony"), Str("Budget: Low")>>)}

SourceMarks ==
    {<<Absent, Absent>>, <<Str("user_input"), Str("user_input")>>,
     <<Str("api"), Str("user_input_converted")>>}

QualityData ==
    {PutField(PutField(PutField(
        Dict([data_status |-> Dict([soil |-> s, weather |-> w, air_quality |-> a])]),
        "user_customizations", c), "soil_texture_source", m[1]), "space_source", m[2]) :
        s \in SourceStatuses, w \in SourceStatuses, a \in SourceStatuses,
        c \in Customizations, m \in SourceMarks}

InitQuality ==
    /\ call = "none"
    /\ arg \in QualityData
    /\ ret = None
    /\ aux = None

\* app.py:563 quality_info = get_data_quality_summary(env_data)
DataQualitySummary ==
    /\ call = "none"
    /\ call' = "get_data_quality_summary"
    /\ ret' = get_data_quality_summary(arg)
    /\ UNCHANGED <<arg, aux>>

NextQuality == DataQualitySummary

SpecQuality == InitQuality /\ [][NextQuality]_vars

\* a source of the data in arg has the status default_values
SomeDefault ==
    \E k \in {"soil", "weather", "air_quality"} :
        arg.v["data_status"].v[k] = Str("default_values")

\* C28: whenever at least one of the three sources has the status
\* default_values, the summary's overall_quality is 'fair' or 'poor', lower
\* than the 'good' of three successful sources, whatever customizations the
\* profile carries; and the summary is never an exception
C28_DefaultsLowerQuality ==
    call = "get_data_quality_summary" =>
        /\ ~IsRaised(ret)
        /\ SomeDefault => ret.v["overall_quality"] \in {Str("fair"), Str("poor")}

\* the part that holds: without customizations a default source gives 'fair'
\* or 'poor', and no data raises
C28_HoldsWithoutCustomizations ==
    call = "get_data_quality_summary" =>
        /\ ~IsRaised(ret)
        /\ (SomeDefault /\ ~Has(arg, "user_customizations"))
              => ret.v["overall_quality"] \in {Str("fair"), Str("poor")}

(***************************************************************************)
(* The scores of the records the local adapter returns                     *)
(***************************************************************************)
\* suitability_score as a model sends it: the prompt's example is the
\* number 8.5 (local_api.py:368), the fallback records hold "9/10"
ScoreForms == {Absent, PyInt(9), PyFloat("8.5"), Str("8.5/10"), Str("9/10")}

ScoreRecords ==
    {PutField(PutField(PutField(PutField(PutField(
        Dict([scientific_name |-> Str("Oryza sativa"), common_name |-> Str("Rice")]),
        "suitability_score", score), "water_needs", water.water_needs),
        "water_requirements", water.water_requirements), "sunlight", sun.sunlight),
        "sunlight_requirements", sun.sunlight_requirements) :
        score \in ScoreForms, water \in WaterData, sun \in SunlightData}

InitScore ==
    /\ call = "none"
    /\ arg \in ScoreRecords
    /\ ret = None
    /\ aux = None

NextScore == AdaptLocal \/ EnhanceRepaired

SpecScore == InitScore /\ [][NextScore]_vars

\* the text of a number
IsNumberText(s) == Len(s) > 0 /\ NumberEnd(s, 0) = Len(s)
\* a text of the form <number>/10 with exactly one /10
IsScoreText(x) ==
    /\ IsStr(x)
    /\ EndsWith(x.v, "/10")
    /\ Count(x.v, "/10") = 1
    /\ IsNumberText(Slice(x.v, 0, Len(x.v) - 3))
\* a number between 0 and 10
IsImpactScore(x) ==
    /\ x.t \in {"int", "float"}
    /\ Thousandths(Format(x)) <= 10000

\* the local adapter has returned
LocalAdapterReturned ==
    call \in {"enhance_local_recommendations_for_ui",
              "enhance_local_recommendations_for_ui (repaired)"}

\* C29: in every record the local adapter returns, suitability_score is a
\* text <number>/10 with exactly one /10 and environmental_impact_score is a
\* number between 0 and 10, whatever form the record's suitability_score had
C29_ScoresWellFormed ==
    LocalAdapterReturned =>
        /\ IsList(ret)
        /\ \A i \in 1..Len(ret.v) :
              /\ IsScoreText(Field(ret.v[i], "suitability_score"))
              /\ IsImpactScore(Field(ret.v[i], "environmental_impact_score"))

\* the part that holds: records whose suitability_score is a number or is
\* missing
C29_HoldsForNumbers ==
    (LocalAdapterReturned /\ ~IsStr(Field(arg, "suitability_score"))) =>
        /\ IsList(ret)
        /\ \A i \in 1..Len(ret.v) :
              /\ IsScoreText(Field(ret.v[i], "suitability_score"))
              /\ IsImpactScore(Field(ret.v[i], "environmental_impact_score"))

=============================================================================
